---- MODULE Spec2Model ----
(***************************************************************************)
(* A model of golog's file writers (src/writer.go): BufferedFileWriter,    *)
(* its background scheduler, RotatingFileWriter and                        *)
(* TimedRotatingFileWriter with its purge.  File contents and              *)
(* the bufio buffer are sequences of tagged bytes <<caller, k, offset>>,   *)
(* so that loss, duplication, reordering and splitting of a record are     *)
(* visible in the state.                                                   *)
(***************************************************************************)
EXTENDS Integers, Sequences, FiniteSets, TLC

VARIABLES
    fs,          \* the directory: file name -> [ex, data]; 0 is path, i is path.i
    writer,      \* w.writer: the open file's name, or NilFile
    buffer,      \* w.buffer: the bufio.Writer [nil, buf, err, size]
    updated,     \* w.updated
    updateChan,  \* number of values buffered in w.updateChan (capacity 1)
    stopChan,    \* TRUE once close(w.stopChan) was executed
    locker,      \* w.locker: 0 when free, else the caller blocked holding it
    timer,       \* the scheduler's flush timer: "armed", "fired" or "stopped"
    sched,       \* the scheduler goroutine's position
    pos,         \* RotatingFileWriter.pos
    maxSize,     \* RotatingFileWriter.maxSize
    backupCount, \* RotatingFileWriter.backupCount
    closer,      \* position of the goroutine calling Close
    closeErr,    \* what Close returned
    wcnt,        \* per caller: number of Write calls issued
    res,         \* per caller: result of each Write call, in call order
    accepted,    \* the bytes accepted by Write calls, in buffer-append order
    rotations,   \* number of rotate() calls that returned nil
    faults,      \* MaxFaults less the I/O errors so far; injected while > 0
    crashed,     \* TRUE after a nil-pointer panic ended the process
    now,         \* the clock now(), in units of the rotate duration (day or hour)
    rotateTimer, \* the timed scheduler's rotate timer: "armed", "fired", "stopped"
    rotateErr,   \* what the last w.rotate(rotateTimer) returned ("none" before)
    handleClosed,\* TRUE when w.writer is a handle that Close() was called on
    handles,     \* the number of files a TimedRotatingFileWriter holds open
                 \* (0 for the other writers, whose handles are not followed)
    purge,       \* the running purge goroutines: [pc, pathes, name, i]
    newCall,     \* the constructor call that made the writer, and its result
    logger,      \* the Logger: [level, handlers], handlers a list of handler ids
    handlers,    \* the Handlers: id -> [level, writers, closed], closed the
                 \* number of Close calls made on it; its formatter is its id
    sinks,       \* the handlers' writers: id -> [out, closes]
    lastCall,    \* the last call on the Logger or a Handler: [n, op, h, level, message, ret]
    holder,      \* who is between Lock and Unlock of w.locker where these are
                 \* steps of their own: [p, mark]
    conv         \* a line number given to fastUint2DynamicBytes and the bytes
                 \* returned for it: [x, out]

vars == <<fs, writer, buffer, updated, updateChan, stopChan, locker, timer,
          sched, pos, maxSize, backupCount, closer, closeErr, wcnt, res,
          accepted, rotations, faults, crashed, now, rotateTimer, rotateErr,
          handleClosed, handles, purge, newCall, logger, handlers, sinks, lastCall,
          holder, conv>>

(* the state only the TimedRotatingFileWriter has *)
tvars == <<now, rotateTimer, rotateErr, handleClosed, handles, purge>>

(* the state no step of a constructed file writer touches: the constructor  *)
(* call, the Logger and its Handlers                                         *)
uvars == <<newCall, logger, handlers, sinks, lastCall, holder, conv>>

----------------------------------------------------------------------------
(* Bounds of the model *)

MaxWrites == 3
MaxLen == 3
SmallBufferSize == 2
MaxFaults == 1
MaxLiveWrites == 2
MaxMaxSize == 3
MaxBackupCount == 2

(* the goroutines calling Write *)
Callers == {1, 2}
Lens == 0..MaxLen
Bool == {FALSE, TRUE}

(* src/writer.go:32; the tests lower it (src/writer_test.go:13) *)
bufferSize == 1024 * 1024 * 4

NilFile == -1

----------------------------------------------------------------------------
(* Records written by the callers: the k-th Write of caller c, of length n *)

Rec(c, k, n) == [i \in 1..n |-> <<c, k, i>>]

Take(s, n) == SubSeq(s, 1, n)
Drop(s, n) == SubSeq(s, n + 1, Len(s))

NoFileEntry == [ex |-> FALSE, data |-> <<>>]
NilBuffer == [nil |-> TRUE, buf |-> <<>>, err |-> FALSE, size |-> 0]

(* bufio.NewWriterSize(f, bufferSize) *)
NewWriterSize(size) == [nil |-> FALSE, buf |-> <<>>, err |-> FALSE, size |-> size]

(* os.File.Write: appends p to the file (O_APPEND), or fails writing nothing *)
FileWrite(data, p, fail) ==
    IF fail THEN [data |-> data, n |-> 0, err |-> TRUE]
    ELSE [data |-> data \o p, n |-> Len(p), err |-> FALSE]

(* bufio.Writer.Flush *)
BufFlush(b, data, fail) ==
    IF b.err THEN [b |-> b, data |-> data, err |-> TRUE]
    ELSE IF Len(b.buf) = 0 THEN [b |-> b, data |-> data, err |-> FALSE]
    ELSE LET r == FileWrite(data, b.buf, fail) IN
         IF r.err
         THEN [b |-> [b EXCEPT !.buf = Drop(b.buf, r.n), !.err = TRUE],
               data |-> r.data, err |-> TRUE]
         ELSE [b |-> [b EXCEPT !.buf = <<>>], data |-> r.data, err |-> FALSE]

(* bufio.Writer.Write: fills and flushes while p exceeds the free space; a  *)
(* p larger than an empty buffer goes to the file directly.  `fail` fails   *)
(* the first file write this call performs.                                  *)
RECURSIVE BufWriteLoop(_, _, _, _, _)
BufWriteLoop(b, data, p, nn, fail) ==
    IF Len(p) > b.size - Len(b.buf) /\ ~b.err
    THEN IF Len(b.buf) = 0
         THEN LET r == FileWrite(data, p, fail) IN
              BufWriteLoop([b EXCEPT !.err = r.err], r.data, Drop(p, r.n),
                           nn + r.n, FALSE)
         ELSE LET n == b.size - Len(b.buf)
                  f == BufFlush([b EXCEPT !.buf = @ \o Take(p, n)], data, fail)
              IN  BufWriteLoop(f.b, f.data, Drop(p, n), nn + n, FALSE)
    ELSE IF b.err
         THEN [b |-> b, data |-> data, n |-> nn, err |-> TRUE]
         ELSE [b |-> [b EXCEPT !.buf = @ \o p], data |-> data,
               n |-> nn + Len(p), err |-> FALSE]

(* a buffer that flushes after every Write *)
BufWriteThrough(b, data, p, fail) ==
    LET r == BufWriteLoop(b, data, p, 0, fail)
        f == BufFlush(r.b, r.data, FALSE)
    IN  [b |-> f.b, data |-> f.data, n |-> r.n, err |-> r.err]

(* a buffer that flushes as soon as a Write has filled it *)
BufWriteEager(b, data, p, fail) ==
    LET r == BufWriteLoop(b, data, p, 0, fail) IN
    IF ~r.err /\ Len(r.b.buf) = r.b.size
    THEN LET f == BufFlush(r.b, r.data, FALSE)
         IN  [b |-> f.b, data |-> f.data, n |-> r.n, err |-> r.err]
    ELSE r

BufWrite(b, data, p, fail) == BufWriteLoop(b, data, p, 0, fail)

Buffered(b) == Len(b.buf)

(* the environment may fail an I/O step while its fault budget lasts; a     *)
(* fault chosen for a step the call never reaches is not spent              *)
FaultChoice == IF faults > 0 THEN Bool ELSE {FALSE}
Spend(hit) == IF hit THEN faults - 1 ELSE faults

----------------------------------------------------------------------------
(* BufferedFileWriter *)

RECURSIVE SumOver(_, _)
SumOver(f, S) ==
    IF S = {} THEN 0
    ELSE LET x == CHOOSE y \in S : TRUE IN f[x] + SumOver(f, S \ {x})

(* the number of Write calls issued so far *)
Issued == SumOver(wcnt, Callers)

(* what a Write call returned, with the file that was open and the number  *)
(* of rotations done when it was called                                     *)
WriteResult(n, err, len) ==
    [n |-> n, err |-> err, len |-> len, afterClose |-> closer = "done",
     file |-> writer, rot |-> rotations]

(* a Write that sets w.updated but never sends the dirty signal *)
SendUpdateForgotten(c, signal) ==
    /\ updated' = (updated \/ signal)
    /\ UNCHANGED <<updateChan, locker>>

(* a Write that sends the dirty signal whatever the updated flag says *)
SendUpdateAlways(c, signal) ==
    /\ updated' = TRUE
    /\ updateChan' = 1
    /\ locker' = IF updateChan = 1 THEN c ELSE 0

(* w.updateChan <- struct{}{} while holding the lock: with the channel full *)
(* the sender stays blocked, still holding the lock                          *)
SendUpdate(c, signal) ==
    /\ updated' = (updated \/ signal)
    /\ updateChan' = IF signal THEN 1 ELSE updateChan
    /\ locker' = IF signal /\ updateChan = 1 THEN c ELSE 0

(* a Write that sends a record larger than the buffer's free space straight *)
(* to the file, past the bytes still buffered                               *)
WriteBypass(c, n, fail) ==
    /\ ~crashed /\ locker = 0
    /\ closer \in {"idle", "done"}
    /\ wcnt' = [wcnt EXCEPT ![c] = @ + 1]
    /\ IF buffer.nil
       THEN /\ crashed' = TRUE
            /\ UNCHANGED <<fs, buffer, updated, updateChan, locker, accepted,
                           res, faults>>
       ELSE LET p == Rec(c, wcnt[c] + 1, n)
                r == IF n > buffer.size - Buffered(buffer)
                     THEN [b |-> buffer, data |-> fs[writer].data \o p,
                           n |-> n, err |-> FALSE]
                     ELSE BufWrite(buffer, fs[writer].data, p, fail)
            IN  /\ buffer' = r.b
                /\ fs' = [fs EXCEPT ![writer].data = r.data]
                /\ SendUpdate(c, ~updated /\ r.n > 0 /\ Buffered(r.b) > 0)
                /\ accepted' = accepted \o Take(p, r.n)
                /\ res' = [res EXCEPT ![c] = Append(@,
                             WriteResult(r.n, IF r.err THEN "io" ELSE "nil", n))]
                /\ faults' = Spend(fail /\ r.err)
                /\ UNCHANGED crashed
    /\ UNCHANGED <<writer, stopChan, timer, sched, pos, maxSize, backupCount,
                   closer, closeErr, rotations>>
    /\ UNCHANGED tvars
    /\ UNCHANGED uvars

(* BufferedFileWriter.Write, from Lock to Unlock.  A nil w.buffer (after    *)
(* Close) is dereferenced by bufio.Writer.Write: the process panics.        *)
Write(c, n, fail) ==
    /\ ~crashed /\ locker = 0
    /\ closer \in {"idle", "done"}
    /\ wcnt' = [wcnt EXCEPT ![c] = @ + 1]
    /\ IF buffer.nil
       THEN /\ crashed' = TRUE
            /\ UNCHANGED <<fs, buffer, updated, updateChan, locker, accepted,
                           res, faults>>
       ELSE LET p == Rec(c, wcnt[c] + 1, n)
                r == BufWrite(buffer, fs[writer].data, p, fail)
            IN  /\ buffer' = r.b
                /\ fs' = [fs EXCEPT ![writer].data = r.data]
                /\ SendUpdate(c, ~updated /\ r.n > 0 /\ Buffered(r.b) > 0)
                /\ accepted' = accepted \o Take(p, r.n)
                /\ res' = [res EXCEPT ![c] = Append(@,
                             WriteResult(r.n, IF r.err THEN "io" ELSE "nil", n))]
                /\ faults' = Spend(fail /\ r.err)
                /\ UNCHANGED crashed
    /\ UNCHANGED <<writer, stopChan, timer, sched, pos, maxSize, backupCount,
                   closer, closeErr, rotations>>
    /\ UNCHANGED tvars
    /\ UNCHANGED uvars

(* Close, first statement: close(w.stopChan) *)
CloseStop ==
    /\ ~crashed
    /\ closer = "idle"
    /\ closer' = "stopping"
    /\ stopChan' = TRUE
    /\ UNCHANGED <<fs, writer, buffer, updated, updateChan, locker, timer, sched,
                   pos, maxSize, backupCount, closeErr, wcnt, res, accepted,
                   rotations, faults, crashed>>
    /\ UNCHANGED tvars
    /\ UNCHANGED uvars

(* a Close that drops the buffer without flushing it *)
CloseBodyNoFlush(flushFail, closeFail) ==
    /\ ~crashed /\ locker = 0
    /\ closer = "stopping"
    /\ buffer' = NilBuffer
    /\ writer' = NilFile
    /\ closeErr' = IF closeFail THEN "io" ELSE "nil"
    /\ closer' = "done"
    /\ faults' = Spend(closeFail)
    /\ handles' = IF handleClosed \/ handles = 0 THEN handles ELSE handles - 1
    /\ UNCHANGED <<fs, crashed, updated, updateChan, stopChan, locker, timer,
                   sched, pos, maxSize, backupCount, wcnt, res, accepted,
                   rotations>>
    /\ UNCHANGED <<now, rotateTimer, rotateErr, handleClosed, purge>>
    /\ UNCHANGED uvars

(* Close, from Lock to Unlock: flush, drop the buffer, close and unset the  *)
(* file.  w.buffer is nil after a failed rotation: Flush on it panics.      *)
CloseBody(flushFail, closeFail) ==
    /\ ~crashed /\ locker = 0
    /\ closer = "stopping"
    /\ IF buffer.nil
       THEN /\ crashed' = TRUE
            /\ UNCHANGED <<fs, writer, buffer, closer, closeErr, faults>>
       ELSE LET f == BufFlush(buffer, fs[writer].data, flushFail) IN
            /\ fs' = [fs EXCEPT ![writer].data = f.data]
            /\ buffer' = NilBuffer
            /\ writer' = NilFile
            /\ closeErr' = IF f.err \/ closeFail THEN "io" ELSE "nil"
            /\ closer' = "done"
            /\ faults' = Spend((flushFail /\ f.err) \/ closeFail)
            /\ UNCHANGED crashed
    /\ handles' = IF buffer.nil \/ handleClosed \/ handles = 0 THEN handles
                  ELSE handles - 1
    /\ UNCHANGED <<updated, updateChan, stopChan, locker, timer, sched, pos,
                   maxSize, backupCount, wcnt, res, accepted, rotations>>
    /\ UNCHANGED <<now, rotateTimer, rotateErr, handleClosed, purge>>
    /\ UNCHANGED uvars

(* the runtime fires the armed flush timer: a value is put in timer.C *)
TimerFire ==
    /\ ~crashed
    /\ timer = "armed"
    /\ timer' = "fired"
    /\ UNCHANGED <<fs, writer, buffer, updated, updateChan, stopChan, locker,
                   sched, pos, maxSize, backupCount, closer, closeErr, wcnt, res,
                   accepted, rotations, faults, crashed>>
    /\ UNCHANGED tvars
    /\ UNCHANGED uvars

(* schedule, first select, case <-w.updateChan: stopTimer (stop and drain)  *)
(* and Reset.  Receiving from the full channel lets a blocked sender        *)
(* complete its send and unlock.                                             *)
SchedUpdate ==
    /\ ~crashed
    /\ sched = "idle"
    /\ updateChan = 1
    /\ updateChan' = IF locker # 0 THEN 1 ELSE 0
    /\ locker' = 0
    /\ timer' = "armed"
    /\ sched' = "armed"
    /\ UNCHANGED <<fs, writer, buffer, updated, stopChan, pos, maxSize,
                   backupCount, closer, closeErr, wcnt, res, accepted, rotations,
                   faults, crashed>>
    /\ UNCHANGED tvars
    /\ UNCHANGED uvars

(* schedule, either select, case <-w.stopChan: stopTimer and return *)
SchedStop ==
    /\ ~crashed
    /\ sched \in {"idle", "armed"}
    /\ stopChan
    /\ timer' = "stopped"
    /\ sched' = "done"
    /\ UNCHANGED <<fs, writer, buffer, updated, updateChan, stopChan, locker, pos,
                   maxSize, backupCount, closer, closeErr, wcnt, res, accepted,
                   rotations, faults, crashed>>
    /\ UNCHANGED tvars
    /\ UNCHANGED uvars

(* schedule, second select, case <-timer.C *)
SchedTimer ==
    /\ ~crashed
    /\ sched = "armed"
    /\ timer = "fired"
    /\ timer' = "stopped"
    /\ sched' = "flush"
    /\ UNCHANGED <<fs, writer, buffer, updated, updateChan, stopChan, locker, pos,
                   maxSize, backupCount, closer, closeErr, wcnt, res, accepted,
                   rotations, faults, crashed>>
    /\ UNCHANGED tvars
    /\ UNCHANGED uvars

(* a timer flush that resets the buffer instead of flushing it *)
SchedFlushDiscard(fail) ==
    /\ ~crashed /\ locker = 0
    /\ sched = "flush"
    /\ sched' = "idle"
    /\ IF writer # NilFile
       THEN /\ updated' = FALSE
            /\ buffer' = [buffer EXCEPT !.buf = <<>>]
            /\ UNCHANGED faults
       ELSE UNCHANGED <<updated, buffer, faults>>
    /\ UNCHANGED <<fs, writer, updateChan, stopChan, locker, timer, pos, maxSize,
                   backupCount, closer, closeErr, wcnt, res, accepted, rotations,
                   crashed>>
    /\ UNCHANGED tvars
    /\ UNCHANGED uvars

(* a timer flush that leaves the updated flag set *)
SchedFlushFlagKept(fail) ==
    /\ ~crashed /\ locker = 0
    /\ sched = "flush"
    /\ sched' = "idle"
    /\ IF writer # NilFile
       THEN LET f == BufFlush(buffer, fs[writer].data, fail) IN
            /\ buffer' = f.b
            /\ fs' = [fs EXCEPT ![writer].data = f.data]
            /\ faults' = Spend(fail /\ f.err)
       ELSE UNCHANGED <<buffer, fs, faults>>
    /\ UNCHANGED <<writer, updated, updateChan, stopChan, locker, timer, pos,
                   maxSize, backupCount, closer, closeErr, wcnt, res, accepted,
                   rotations, crashed>>
    /\ UNCHANGED tvars
    /\ UNCHANGED uvars

(* schedule, the timer case's body from Lock to Unlock *)
SchedFlush(fail) ==
    /\ ~crashed /\ locker = 0
    /\ sched = "flush"
    /\ sched' = "idle"
    /\ IF writer # NilFile
       THEN LET f == BufFlush(buffer, fs[writer].data, fail) IN
            /\ updated' = FALSE
            /\ buffer' = f.b
            /\ fs' = [fs EXCEPT ![writer].data = f.data]
            /\ faults' = Spend(fail /\ f.err)
       ELSE UNCHANGED <<updated, buffer, fs, faults>>
    /\ UNCHANGED <<writer, updateChan, stopChan, locker, timer, pos, maxSize,
                   backupCount, closer, closeErr, wcnt, res, accepted, rotations,
                   crashed>>
    /\ UNCHANGED tvars
    /\ UNCHANGED uvars

(* file names: 0 is w.path, i is w.path + "." + i *)
Names == 0..(MaxBackupCount + 1)

(* NewBufferedFileWriter on a path with no file: the file is created empty  *)
(* and the scheduler started with time.NewTimer(0)                           *)
NewBufferedFileWriter(size) ==
    /\ fs = [i \in Names |-> IF i = 0 THEN [ex |-> TRUE, data |-> <<>>] ELSE NoFileEntry]
    /\ writer = 0
    /\ buffer = NewWriterSize(size)
    /\ updated = FALSE
    /\ updateChan = 0
    /\ stopChan = FALSE
    /\ locker = 0
    /\ timer = "armed"
    /\ sched = "idle"

(* no Write or Close called yet *)
NoCalls ==
    /\ closer = "idle" /\ closeErr = "nil"
    /\ wcnt = [c \in Callers |-> 0]
    /\ res = [c \in Callers |-> <<>>]
    /\ accepted = <<>>
    /\ rotations = 0
    /\ crashed = FALSE

(* a constructor call and its result *)
NewCall(kind, m, b, rd, err) ==
    [kind |-> kind, maxSize |-> m, backupCount |-> b, rotateDuration |-> rd,
     err |-> err]

(* nobody holds w.locker *)
NoHolder == [p |-> "none", mark |-> 0]

(* no line number was formatted *)
NoConv == [x |-> 0, out |-> <<>>]

(* no Logger is in use *)
NoLogger ==
    /\ holder = NoHolder
    /\ conv = NoConv
    /\ logger = [level |-> 0, handlers |-> <<>>]
    /\ handlers = <<>>
    /\ sinks = <<>>
    /\ lastCall = [n |-> 0, op |-> "none", h |-> 0, level |-> 0, message |-> "", ret |-> "none"]

(* the writer exists, its construction is not part of the behaviour *)
Constructed ==
    /\ newCall = NewCall("given", 0, 0, 0, "nil")
    /\ NoLogger

(* the writer is not a TimedRotatingFileWriter: no clock, rotate timer or   *)
(* purge                                                                     *)
Untimed ==
    /\ now = 0
    /\ rotateTimer = "stopped"
    /\ rotateErr = "none"
    /\ handleClosed = FALSE
    /\ handles = 0
    /\ purge = {}

Init ==
    /\ NewBufferedFileWriter(SmallBufferSize)
    /\ pos = 0 /\ maxSize = 0 /\ backupCount = 0
    /\ NoCalls
    /\ Constructed
    /\ Untimed
    /\ faults = MaxFaults

----------------------------------------------------------------------------
(* RotatingFileWriter *)

(* os.Rename(old, new): replaces new; fails, changing nothing, when old    *)
(* does not exist                                                           *)
Rename(dir, old, new) ==
    IF dir[old].ex
    THEN [dir EXCEPT ![new] = dir[old], ![old] = NoFileEntry]
    ELSE dir

(* a rotate that does not shift the backups *)
ShiftBackupsSkipped(dir, i) == dir

(* rotate, the loop shifting the backups: path.(i-1) -> path.i for         *)
(* i = backupCount down to 2, errors ignored                                *)
RECURSIVE ShiftBackups(_, _)
ShiftBackups(dir, i) ==
    IF i > 1 THEN ShiftBackups(Rename(dir, i - 1, i), i - 1) ELSE dir

(* an open that truncates the file it finds *)
OpenFileTruncating(dir, name) ==
    [dir EXCEPT ![name] = [ex |-> TRUE, data |-> <<>>]]

(* os.OpenFile(path, O_WRONLY|O_CREATE|O_APPEND) *)
OpenFile(dir, name) ==
    IF dir[name].ex THEN dir ELSE [dir EXCEPT ![name] = [ex |-> TRUE, data |-> <<>>]]

(* bufio.Writer.Reset: drops unflushed data and the sticky error *)
BufReset(b) == [b EXCEPT !.buf = <<>>, !.err = FALSE]

(* the writer's fields a rotation touches *)
RotState == [fs |-> fs, writer |-> writer, buffer |-> buffer, pos |-> pos,
             rotations |-> rotations]

Unset(st) == [st EXCEPT !.writer = NilFile, !.buffer = NilBuffer]

Failed(st) == [st |-> st, err |-> "io"]

(* rotate, lines 299-308: reopen w.path and reset the buffer onto it *)
rotateReopen(st, step) ==
    IF step = "open" THEN Failed(Unset(st))
    ELSE [st |-> [st EXCEPT !.fs = OpenFile(st.fs, 0),
                            !.writer = 0,
                            !.buffer = BufReset(st.buffer),
                            !.rotations = @ + 1],
          err |-> "nil"]

(* a rotate that removes w.path instead of renaming it to w.path.1 *)
rotateRenameDropping(st, step) ==
    IF step = "rename" THEN Failed(Unset(st))
    ELSE rotateReopen([st EXCEPT !.fs[0] = NoFileEntry], step)

(* rotate, lines 292-297: rename w.path to w.path.1 *)
rotateRename(st, step) ==
    IF step = "rename" THEN Failed(Unset(st))
    ELSE rotateReopen([st EXCEPT !.fs = Rename(st.fs, 0, 1)], step)

(* a rotate whose shift loop starts one backup too high *)
rotateCloseOneMore(st, step) ==
    IF step = "close" THEN Failed(Unset([st EXCEPT !.pos = 0]))
    ELSE rotateRename([st EXCEPT !.pos = 0,
                                 !.fs = ShiftBackups(st.fs, backupCount + 1)], step)

(* rotate, lines 278-290: close the file, reset pos, shift the backups *)
rotateClose(st, step) ==
    IF step = "close" THEN Failed(Unset([st EXCEPT !.pos = 0]))
    ELSE rotateRename([st EXCEPT !.pos = 0,
                                 !.fs = ShiftBackups(st.fs, backupCount)], step)

(* rotate, lines 273-276: the outcome f of w.buffer.Flush() *)
rotateFlushed(st, f, step) ==
    IF f.err
    THEN Failed([st EXCEPT !.buffer = f.b, !.fs[st.writer].data = f.data])
    ELSE rotateClose([st EXCEPT !.buffer = f.b, !.fs[st.writer].data = f.data], step)

(* a rotate that closes and renames the file without flushing the buffer   *)
(* first                                                                    *)
rotateUnflushed(st, step) ==
    IF st.writer = NilFile
    THEN [st |-> st, err |-> "closed"]
    ELSE rotateClose(st, step)

(* RotatingFileWriter.rotate; `step` names the I/O step that fails, if any *)
rotate(st, step) ==
    IF st.writer = NilFile
    THEN [st |-> st, err |-> "closed"]
    ELSE rotateFlushed(st, BufFlush(st.buffer, st.fs[st.writer].data,
                                    step = "flush"), step)

RotSteps == {"flush", "close", "rename", "open"}

(* where an I/O fault hits a Write call: <<k, step>> is step of the k-th   *)
(* rotate call, <<3, "write">> the buffer's file write                      *)
FaultPoints ==
    {<<0, "none">>} \cup
    (IF faults > 0
     THEN ({1, 2} \X RotSteps) \cup {<<3, "write">>}
     ELSE {})

StepOf(fp, k) == IF fp[1] = k THEN fp[2] ELSE "none"

(* the outcome r of w.buffer.Write(p), stored into the rotation state *)
Stored(st, r) == [st EXCEPT !.buffer = r.b, !.fs[st.writer].data = r.data]

Outcome(st, n, err, signal, panic) ==
    [st |-> st, n |-> n, err |-> err, signal |-> signal, panic |-> panic]

Returned(r, n) == Outcome(r.st, n, r.err, FALSE, FALSE)

(* an oversized Write that returns without the second rotation *)
OversizedWrittenNoRotate(st, r, fp) ==
    Outcome([Stored(st, r) EXCEPT !.pos = r.n], r.n,
            IF r.err THEN "io" ELSE "nil", FALSE, FALSE)

(* Write, lines 238-244: r is the outcome of w.buffer.Write(p) *)
OversizedWritten(st, r, fp) ==
    IF r.err
    THEN Outcome([Stored(st, r) EXCEPT !.pos = r.n], r.n, "io", FALSE, FALSE)
    ELSE Returned(rotate(Stored(st, r), StepOf(fp, 2)), r.n)

(* Write, lines 233-238: r1 is the outcome of the first rotate *)
OversizedRotated(r1, p, fp) ==
    IF r1.err # "nil" THEN Returned(r1, 0)
    ELSE OversizedWritten(r1.st,
                          BufWrite(r1.st.buffer, r1.st.fs[r1.st.writer].data, p,
                                   StepOf(fp, 3) = "write"),
                          fp)

(* an oversized Write without the rotation before the record is written *)
WriteOversizedUnrotated(st, p, fp) ==
    OversizedRotated([st |-> st, err |-> "nil"], p, fp)

(* RotatingFileWriter.Write, branch length >= w.maxSize *)
WriteOversized(st, p, fp) == OversizedRotated(rotate(st, StepOf(fp, 1)), p, fp)

(* Write, lines 255-261: r is the outcome of w.buffer.Write(p) *)
FittingWritten(st, r) ==
    IF r.n > 0
    THEN Outcome([Stored(st, r) EXCEPT !.pos = @ + r.n], r.n,
                 IF r.err THEN "io" ELSE "nil",
                 ~updated /\ Buffered(r.b) > 0, FALSE)
    ELSE Outcome(Stored(st, r), r.n, IF r.err THEN "io" ELSE "nil", FALSE, FALSE)

(* Write, lines 249-254: r1 is the outcome of the rotate, if one was due;  *)
(* w.buffer.Write panics on a nil buffer                                    *)
FittingRotated(r1, p, fp) ==
    IF r1.err # "nil" THEN Returned(r1, 0)
    ELSE IF r1.st.buffer.nil THEN Outcome(r1.st, 0, "nil", FALSE, TRUE)
    ELSE FittingWritten(r1.st,
                        BufWrite(r1.st.buffer, r1.st.fs[r1.st.writer].data, p,
                                 StepOf(fp, 3) = "write"))

(* a Write that rotates already when the record would fill the file *)
WriteFittingEager(st, p, fp) ==
    FittingRotated(IF st.pos + Len(p) >= maxSize
                   THEN rotate(st, StepOf(fp, 1))
                   ELSE [st |-> st, err |-> "nil"],
                   p, fp)

(* a Write that fills the active file up to maxSize, rotates, and writes    *)
(* the rest of the record to the new file                                   *)
WriteFittingSplit(st, p, fp) ==
    IF st.pos + Len(p) > maxSize /\ st.pos < maxSize /\ ~st.buffer.nil
    THEN FittingRotated(
             rotate(Stored(st, BufWrite(st.buffer, st.fs[st.writer].data,
                                        Take(p, maxSize - st.pos), FALSE)),
                    StepOf(fp, 1)),
             Drop(p, maxSize - st.pos), fp)
    ELSE FittingRotated(IF st.pos + Len(p) > maxSize
                        THEN rotate(st, StepOf(fp, 1))
                        ELSE [st |-> st, err |-> "nil"],
                        p, fp)

(* a Write that rotates only once the file has outgrown maxSize *)
WriteFittingLate(st, p, fp) ==
    FittingRotated(IF st.pos > maxSize
                   THEN rotate(st, StepOf(fp, 1))
                   ELSE [st |-> st, err |-> "nil"],
                   p, fp)

(* RotatingFileWriter.Write, branch length < w.maxSize *)
WriteFitting(st, p, fp) ==
    FittingRotated(IF st.pos + Len(p) > maxSize
                   THEN rotate(st, StepOf(fp, 1))
                   ELSE [st |-> st, err |-> "nil"],
                   p, fp)

RotatingWriteOutcome(st, p, fp) ==
    IF Len(p) >= maxSize THEN WriteOversized(st, p, fp) ELSE WriteFitting(st, p, fp)

(* RotatingWrite's effect on the writer, given the outcome o of the call *)
RotatingWriteApply(c, n, p, fp, o) ==
    IF o.panic
    THEN /\ crashed' = TRUE
         /\ UNCHANGED <<fs, writer, buffer, pos, rotations, updated,
                        updateChan, locker, accepted, res, faults>>
    ELSE /\ fs' = o.st.fs
         /\ writer' = o.st.writer
         /\ buffer' = o.st.buffer
         /\ pos' = o.st.pos
         /\ rotations' = o.st.rotations
         /\ SendUpdate(c, o.signal)
         /\ accepted' = accepted \o Take(p, o.n)
         /\ res' = [res EXCEPT ![c] = Append(@, WriteResult(o.n, o.err, n))]
         /\ faults' = Spend(fp[1] # 0 /\ o.err = "io")
         /\ UNCHANGED crashed

(* RotatingFileWriter.Write, from Lock to the deferred Unlock *)
RotatingWrite(c, n, fp) ==
    /\ ~crashed /\ locker = 0
    /\ closer \in {"idle", "done"}
    /\ wcnt' = [wcnt EXCEPT ![c] = @ + 1]
    /\ RotatingWriteApply(c, n, Rec(c, wcnt[c] + 1, n), fp,
                          RotatingWriteOutcome(RotState, Rec(c, wcnt[c] + 1, n), fp))
    /\ UNCHANGED <<stopChan, timer, sched, maxSize, backupCount, closer, closeErr>>
    /\ UNCHANGED tvars
    /\ UNCHANGED uvars

(* the goroutines calling Write on the rotating writer *)
RotCallers == {1}

(* NewRotatingFileWriter(path, maxSize, backupCount) in an empty directory *)
InitRot ==
    /\ NewBufferedFileWriter(SmallBufferSize)
    /\ pos = 0
    /\ maxSize \in 1..MaxMaxSize
    /\ backupCount \in 1..MaxBackupCount
    /\ NoCalls
    /\ Constructed
    /\ Untimed
    /\ faults = MaxFaults

(* the steps of a size-rotating writer whose Write is called by CS *)
RotNext(CS) ==
    \/ \E c \in CS, n \in Lens, fp \in FaultPoints :
          Issued < MaxWrites /\ RotatingWrite(c, n, fp)
    \/ CloseStop
    \/ \E ff \in FaultChoice, cf \in FaultChoice : CloseBody(ff, cf)
    \/ TimerFire
    \/ SchedUpdate
    \/ SchedStop
    \/ SchedTimer
    \/ \E fail \in FaultChoice : SchedFlush(fail)

NextRot == RotNext(RotCallers)

SpecRot == InitRot /\ [][NextRot]_vars

Next ==
    \/ \E c \in Callers, n \in Lens, fail \in FaultChoice :
          Issued < MaxWrites /\ Write(c, n, fail)
    \/ CloseStop
    \/ \E ff \in FaultChoice, cf \in FaultChoice : CloseBody(ff, cf)
    \/ TimerFire
    \/ SchedUpdate
    \/ SchedStop
    \/ SchedTimer
    \/ \E fail \in FaultChoice : SchedFlush(fail)

Spec == Init /\ [][Next]_vars

----------------------------------------------------------------------------
(* The plain writer without I/O faults, its goroutines scheduled fairly:    *)
(* the scheduler goroutine and a Close in progress keep running, and an     *)
(* armed timer fires.                                                       *)

InitLive ==
    /\ NewBufferedFileWriter(SmallBufferSize)
    /\ pos = 0 /\ maxSize = 0 /\ backupCount = 0
    /\ NoCalls
    /\ Constructed
    /\ Untimed
    /\ faults = MaxFaults

NextLive ==
    \/ \E c \in Callers, n \in Lens : Issued < MaxLiveWrites /\ Write(c, n, FALSE)
    \/ CloseStop
    \/ CloseBody(FALSE, FALSE)
    \/ TimerFire
    \/ SchedUpdate
    \/ SchedStop
    \/ SchedTimer
    \/ SchedFlush(FALSE)

SpecLive ==
    /\ InitLive /\ [][NextLive]_vars
    /\ WF_vars(TimerFire)
    /\ WF_vars(SchedUpdate)
    /\ WF_vars(SchedStop)
    /\ WF_vars(SchedTimer)
    /\ WF_vars(SchedFlush(FALSE))
    /\ WF_vars(CloseBody(FALSE, FALSE))

----------------------------------------------------------------------------
(* The plain and the size-rotating writer side by side (maxSize = 0 marks   *)
(* the plain one), each written by both callers, without I/O faults         *)

InitBoth ==
    /\ NewBufferedFileWriter(SmallBufferSize)
    /\ pos = 0
    /\ \/ maxSize = 0 /\ backupCount = 0
       \/ maxSize \in 1..MaxMaxSize /\ backupCount \in 1..MaxBackupCount
    /\ NoCalls
    /\ Constructed
    /\ Untimed
    /\ faults = 0

NextBoth ==
    \/ maxSize = 0 /\ Next
    \/ maxSize > 0 /\ RotNext(Callers)

SpecBoth == InitBoth /\ [][NextBoth]_vars

----------------------------------------------------------------------------
(* TestRotatingFileWriter's workload (src/writer_test.go:113-193): one      *)
(* caller writing records of one length r < maxSize, without I/O faults;    *)
(* the test's own parameters and small ones                                 *)

TestMaxSize == 128
TestBackupCount == 2
TestRecordLen == 10
TestBatch == 20

UniformConfigs ==
    {<<TestMaxSize, TestBackupCount, bufferSize>>} \cup
    {<<m, b, SmallBufferSize>> : m \in 2..MaxMaxSize, b \in 1..MaxBackupCount}

UniformLens ==
    IF maxSize = TestMaxSize THEN {TestRecordLen} ELSE 1..(maxSize - 1)

InitUniform ==
    /\ \E cfg \in UniformConfigs :
          /\ maxSize = cfg[1]
          /\ backupCount = cfg[2]
          /\ NewBufferedFileWriter(cfg[3])
    /\ pos = 0
    /\ NoCalls
    /\ Constructed
    /\ Untimed
    /\ faults = MaxFaults

NextUniform ==
    \/ \E n \in UniformLens :
          /\ Issued < 2 * TestBatch
          /\ IF res[1] = <<>> THEN TRUE ELSE n = res[1][1].len
          /\ RotatingWrite(1, n, <<0, "none">>)
    \/ CloseStop
    \/ CloseBody(FALSE, FALSE)
    \/ TimerFire
    \/ SchedUpdate
    \/ SchedStop
    \/ SchedTimer
    \/ SchedFlush(FALSE)

SpecUniform == InitUniform /\ [][NextUniform]_vars

----------------------------------------------------------------------------
(* NewRotatingFileWriter over a file that exists already (written by an     *)
(* earlier run): its bytes carry the caller 0                               *)

Old(s) == [i \in 1..s |-> <<0, 0, i>>]

(* a constructor that starts counting at 0 whatever the file holds *)
StatSizeIgnored(data) == 0

(* f.Stat().Size() *)
StatSize(data) == Len(data)

(* NewRotatingFileWriter(path, maxSize, 1) where path holds s bytes, s = 0  *)
(* included; no backup exists                                                *)
InitResume ==
    /\ \E s \in 0..MaxMaxSize :
          fs = [i \in Names |-> IF i = 0 THEN [ex |-> TRUE, data |-> Old(s)]
                                         ELSE NoFileEntry]
    /\ writer = 0
    /\ buffer = NewWriterSize(SmallBufferSize)
    /\ updated = FALSE
    /\ updateChan = 0
    /\ stopChan = FALSE
    /\ locker = 0
    /\ timer = "armed"
    /\ sched = "idle"
    /\ pos = StatSize(fs[0].data)
    /\ maxSize \in 1..MaxMaxSize
    /\ backupCount = 1
    /\ NoCalls
    /\ Constructed
    /\ Untimed
    /\ faults = MaxFaults

SpecResume == InitResume /\ [][NextRot]_vars

----------------------------------------------------------------------------
(* TimedRotatingFileWriter.  Its files are named by the clock: file d is    *)
(* pathPrefix plus the suffix of clock value d.  Write and Close are those  *)
(* of the embedded BufferedFileWriter.                                      *)

(* clock values: enough for a purge to find a file to remove with every    *)
(* backupCount                                                              *)
Days == 0..(MaxBackupCount + 1)

(* the rotations followed: as many as there are later clock values *)
MaxRotations == MaxBackupCount + 1

(* the records written to the timed writer *)
TimedLens == {1}

(* a handle that was closed fails every file operation; otherwise the       *)
(* environment may fail it                                                   *)
HandleFault == IF handleClosed THEN {TRUE} ELSE FaultChoice

(* NewTimedRotatingFileWriter(pathPrefix, rotateDuration, backupCount) in   *)
(* an empty directory: openTimedRotatingFile creates the file of now(), the *)
(* scheduler starts with both timers                                        *)
NewTimedRotatingFileWriter ==
    /\ now = 0
    /\ fs = [d \in Days |-> IF d = 0 THEN [ex |-> TRUE, data |-> <<>>] ELSE NoFileEntry]
    /\ writer = 0
    /\ buffer = NewWriterSize(SmallBufferSize)
    /\ updated = FALSE
    /\ updateChan = 0
    /\ stopChan = FALSE
    /\ locker = 0
    /\ timer = "armed"
    /\ sched = "idle"
    /\ rotateTimer = "armed"
    /\ rotateErr = "none"
    /\ handleClosed = FALSE
    /\ handles = 1
    /\ purge = {}
    /\ pos = 0 /\ maxSize = 0
    /\ backupCount \in 1..MaxBackupCount
    /\ NoCalls
    /\ Constructed

(* a timed writer whose I/O never fails *)
InitTimed == NewTimedRotatingFileWriter /\ faults = 0

(* a timed writer whose I/O the environment may fail *)
InitTimedFaulty == NewTimedRotatingFileWriter /\ faults = MaxFaults

(* the clock moves on by one or more rotate durations *)
ClockTick ==
    /\ ~crashed
    /\ \E d \in Days : d > now /\ now' = d
    /\ UNCHANGED <<fs, writer, buffer, updated, updateChan, stopChan, locker,
                   timer, sched, pos, maxSize, backupCount, closer, closeErr,
                   wcnt, res, accepted, rotations, faults, crashed, rotateTimer,
                   rotateErr, handleClosed, handles, purge>>
    /\ UNCHANGED uvars

(* the runtime fires the armed rotate timer, nextRotateDuration after it    *)
(* was set                                                                   *)
RotateTimerFire ==
    /\ ~crashed
    /\ rotateTimer = "armed"
    /\ rotations < MaxRotations
    /\ rotateTimer' = "fired"
    /\ UNCHANGED <<fs, writer, buffer, updated, updateChan, stopChan, locker,
                   timer, sched, pos, maxSize, backupCount, closer, closeErr,
                   wcnt, res, accepted, rotations, faults, crashed, now,
                   rotateErr, handleClosed, handles, purge>>
    /\ UNCHANGED uvars

(* a scheduler that looks at the rotate timer in its idle wait only *)
TimedSchedRotateIdleOnly ==
    /\ ~crashed
    /\ sched = "idle"
    /\ rotateTimer = "fired"
    /\ rotateTimer' = "stopped"
    /\ sched' = "rotateIdle"
    /\ UNCHANGED <<fs, writer, buffer, updated, updateChan, stopChan, locker,
                   timer, pos, maxSize, backupCount, closer, closeErr, wcnt,
                   res, accepted, rotations, faults, crashed, now, rotateErr,
                   handleClosed, handles, purge>>
    /\ UNCHANGED uvars

(* schedule, either select, case <-rotateTimer.C: w.rotate is called and    *)
(* waits for the lock                                                        *)
TimedSchedRotate ==
    /\ ~crashed
    /\ sched \in {"idle", "armed"}
    /\ rotateTimer = "fired"
    /\ rotateTimer' = "stopped"
    /\ sched' = IF sched = "idle" THEN "rotateIdle" ELSE "rotateArmed"
    /\ UNCHANGED <<fs, writer, buffer, updated, updateChan, stopChan, locker,
                   timer, pos, maxSize, backupCount, closer, closeErr, wcnt,
                   res, accepted, rotations, faults, crashed, now, rotateErr,
                   handleClosed, handles, purge>>
    /\ UNCHANGED uvars

(* a scheduler that looks at the stop channel in its idle wait only *)
TimedSchedStopIdleOnly ==
    /\ ~crashed
    /\ sched = "idle"
    /\ stopChan
    /\ timer' = "stopped"
    /\ rotateTimer' = "stopped"
    /\ sched' = "done"
    /\ UNCHANGED <<fs, writer, buffer, updated, updateChan, stopChan, locker, pos,
                   maxSize, backupCount, closer, closeErr, wcnt, res, accepted,
                   rotations, faults, crashed, now, rotateErr, handleClosed, handles,
                   purge>>
    /\ UNCHANGED uvars

(* schedule, either select, case <-w.stopChan: stop both timers and return *)
TimedSchedStop ==
    /\ ~crashed
    /\ sched \in {"idle", "armed"}
    /\ stopChan
    /\ timer' = "stopped"
    /\ rotateTimer' = "stopped"
    /\ sched' = "done"
    /\ UNCHANGED <<fs, writer, buffer, updated, updateChan, stopChan, locker, pos,
                   maxSize, backupCount, closer, closeErr, wcnt, res, accepted,
                   rotations, faults, crashed, now, rotateErr, handleClosed, handles,
                   purge>>
    /\ UNCHANGED uvars

(* a purge goroutine just started by `go w.purge()` *)
NewPurge == [pc |-> "glob", pathes |-> <<>>, name |-> NilFile, i |-> 0]

(* the loop the scheduler returns to after w.rotate *)
AfterRotate == IF sched = "rotateIdle" THEN "idle" ELSE "armed"

(* a rotate that opens the next file without the flushed bytes having       *)
(* reached the old one                                                       *)
timedRotateUnflushed(f, step) ==
    IF step = "open"
    THEN /\ buffer' = NilBuffer
         /\ writer' = NilFile
         /\ rotateErr' = "io"
         /\ faults' = Spend(TRUE)
         /\ handles' = handles - 1
         /\ UNCHANGED <<fs, rotateTimer, rotations, purge, handleClosed>>
    ELSE /\ fs' = OpenFile(fs, now)
         /\ writer' = now
         /\ buffer' = BufReset(f.b)
         /\ rotateTimer' = "armed"
         /\ rotations' = rotations + 1
         /\ purge' = purge \cup {NewPurge}
         /\ rotateErr' = "nil"
         /\ handles' = handles - 1 + 1
         /\ UNCHANGED <<faults, handleClosed>>

(* a rotate that also creates the files of the clock values it skipped *)
timedRotateBackfill(f, step) ==
    IF step = "open"
    THEN /\ buffer' = NilBuffer
         /\ writer' = NilFile
         /\ fs' = [fs EXCEPT ![writer].data = f.data]
         /\ rotateErr' = "io"
         /\ faults' = Spend(TRUE)
         /\ handles' = handles - 1
         /\ UNCHANGED <<rotateTimer, rotations, purge, handleClosed>>
    ELSE /\ fs' = [d \in Days |->
                     IF d = writer THEN [fs[d] EXCEPT !.data = f.data]
                     ELSE IF d > writer /\ d <= now /\ ~fs[d].ex
                          THEN [ex |-> TRUE, data |-> <<>>]
                          ELSE fs[d]]
         /\ writer' = now
         /\ buffer' = BufReset(f.b)
         /\ rotateTimer' = "armed"
         /\ rotations' = rotations + 1
         /\ purge' = purge \cup {NewPurge}
         /\ rotateErr' = "nil"
         /\ handles' = handles - 1 + 1
         /\ UNCHANGED <<faults, handleClosed>>

(* a rotate that opens the next file while the current one is still open   *)
timedRotateLeaking(f, step) ==
    IF step = "open"
    THEN /\ buffer' = NilBuffer
         /\ writer' = NilFile
         /\ fs' = [fs EXCEPT ![writer].data = f.data]
         /\ rotateErr' = "io"
         /\ faults' = Spend(TRUE)
         /\ UNCHANGED <<rotateTimer, rotations, purge, handleClosed, handles>>
    ELSE /\ fs' = OpenFile([fs EXCEPT ![writer].data = f.data], now)
         /\ writer' = now
         /\ buffer' = BufReset(f.b)
         /\ rotateTimer' = "armed"
         /\ rotations' = rotations + 1
         /\ purge' = purge \cup {NewPurge}
         /\ rotateErr' = "nil"
         /\ handles' = handles + 1
         /\ UNCHANGED <<faults, handleClosed>>

(* TimedRotatingFileWriter.rotate, lines 423-439, after Flush and Close     *)
(* succeeded: open the file of now(), reset the buffer onto it, reset the   *)
(* timer, start purge                                                        *)
timedRotateReopen(f, step) ==
    IF step = "open"
    THEN /\ buffer' = NilBuffer
         /\ writer' = NilFile
         /\ fs' = [fs EXCEPT ![writer].data = f.data]
         /\ rotateErr' = "io"
         /\ faults' = Spend(TRUE)
         /\ handles' = handles - 1
         /\ UNCHANGED <<rotateTimer, rotations, purge, handleClosed>>
    ELSE /\ fs' = OpenFile([fs EXCEPT ![writer].data = f.data], now)
         /\ writer' = now
         /\ buffer' = BufReset(f.b)
         /\ rotateTimer' = "armed"
         /\ rotations' = rotations + 1
         /\ purge' = purge \cup {NewPurge}
         /\ rotateErr' = "nil"
         /\ handles' = handles - 1 + 1
         /\ UNCHANGED <<faults, handleClosed>>

(* rotate, lines 411-421: f is the outcome of w.buffer.Flush(); then        *)
(* w.writer.Close()                                                          *)
timedRotateFlushed(f, step) ==
    IF f.err
    THEN /\ buffer' = f.b
         /\ fs' = [fs EXCEPT ![writer].data = f.data]
         /\ rotateErr' = "io"
         /\ faults' = Spend(TRUE)
         /\ UNCHANGED <<writer, rotateTimer, rotations, purge, handleClosed, handles>>
    ELSE IF step = "close" \/ handleClosed
    THEN /\ buffer' = f.b
         /\ fs' = [fs EXCEPT ![writer].data = f.data]
         /\ handleClosed' = TRUE
         /\ handles' = IF handleClosed THEN handles ELSE handles - 1
         /\ rotateErr' = "io"
         /\ faults' = Spend(TRUE)
         /\ UNCHANGED <<writer, rotateTimer, rotations, purge>>
    ELSE timedRotateReopen(f, step)

(* a rotate that does not look whether the writer was closed: it opens the  *)
(* file of now() for a closed writer                                         *)
TimedRotateUnchecked(step) ==
    /\ ~crashed /\ locker = 0
    /\ sched \in {"rotateIdle", "rotateArmed"}
    /\ sched' = AfterRotate
    /\ IF writer = NilFile
       THEN /\ fs' = OpenFile(fs, now)
            /\ writer' = now
            /\ rotateTimer' = "armed"
            /\ rotations' = rotations + 1
            /\ purge' = purge \cup {NewPurge}
            /\ rotateErr' = "nil"
            /\ handles' = handles + 1
            /\ UNCHANGED <<buffer, handleClosed, faults>>
       ELSE timedRotateFlushed(BufFlush(buffer, fs[writer].data,
                                        step = "flush" \/ handleClosed), step)
    /\ UNCHANGED <<updated, updateChan, stopChan, locker, timer, pos, maxSize,
                   backupCount, closer, closeErr, wcnt, res, accepted, crashed,
                   now>>
    /\ UNCHANGED uvars

(* TimedRotatingFileWriter.rotate as called by schedule, from Lock to       *)
(* Unlock and `go w.purge()`; `step` names the I/O step that fails, if any  *)
TimedRotate(step) ==
    /\ ~crashed /\ locker = 0
    /\ sched \in {"rotateIdle", "rotateArmed"}
    /\ sched' = AfterRotate
    /\ IF writer = NilFile
       THEN /\ rotateErr' = "closed"
            /\ UNCHANGED <<fs, writer, buffer, rotateTimer, rotations, purge,
                           handleClosed, handles, faults>>
       ELSE timedRotateFlushed(BufFlush(buffer, fs[writer].data,
                                        step = "flush" \/ handleClosed), step)
    /\ UNCHANGED <<updated, updateChan, stopChan, locker, timer, pos, maxSize,
                   backupCount, closer, closeErr, wcnt, res, accepted, crashed,
                   now>>
    /\ UNCHANGED uvars

TimedSteps == {"none"} \cup (IF faults > 0 THEN {"flush", "close", "open"} ELSE {})

(* sort.Strings on the names of a set of files: oldest first *)
RECURSIVE Sorted(_)
Sorted(S) ==
    IF S = {} THEN <<>>
    ELSE LET m == CHOOSE x \in S : \A y \in S : x <= y
         IN  <<m>> \o Sorted(S \ {m})

(* filepath.Glob(w.pathPrefix + "*") *)
Glob(dir) == Sorted({d \in DOMAIN dir : dir[d].ex})

(* a purge that keeps backupCount files instead of backupCount + 1 *)
CountKeepingFewer(g) == Len(g.pathes) - backupCount

(* purge, line 450: the number of files to remove *)
Count(g) == Len(g.pathes) - backupCount - 1

(* purge, lines 444-451: list the files; return when there are no more      *)
(* than backupCount + 1                                                      *)
PurgeGlob(g) ==
    /\ ~crashed
    /\ g \in purge /\ g.pc = "glob"
    /\ LET h == [g EXCEPT !.pathes = Glob(fs), !.pc = "name"] IN
       purge' = (purge \ {g}) \cup (IF Count(h) > 0 THEN {h} ELSE {})
    /\ UNCHANGED <<fs, writer, buffer, updated, updateChan, stopChan, locker,
                   timer, sched, pos, maxSize, backupCount, closer, closeErr,
                   wcnt, res, accepted, rotations, faults, crashed, now,
                   rotateTimer, rotateErr, handleClosed, handles>>
    /\ UNCHANGED uvars

(* purge, lines 452-457: read the open file's name under the lock *)
PurgeName(g) ==
    /\ ~crashed /\ locker = 0
    /\ g \in purge /\ g.pc = "name"
    /\ purge' = (purge \ {g}) \cup {[g EXCEPT !.name = writer, !.pc = "remove", !.i = 1]}
    /\ UNCHANGED <<fs, writer, buffer, updated, updateChan, stopChan, locker,
                   timer, sched, pos, maxSize, backupCount, closer, closeErr,
                   wcnt, res, accepted, rotations, faults, crashed, now,
                   rotateTimer, rotateErr, handleClosed, handles>>
    /\ UNCHANGED uvars

(* a purge that removes every file it listed, the open one included *)
PurgeRemoveAny(g, fail) ==
    /\ ~crashed
    /\ g \in purge /\ g.pc = "remove"
    /\ LET path == g.pathes[g.i]
           hit == fail /\ fs[path].ex
       IN  /\ fs' = IF fs[path].ex /\ ~fail
                    THEN [fs EXCEPT ![path] = NoFileEntry]
                    ELSE fs
           /\ faults' = Spend(hit)
    /\ purge' = (purge \ {g}) \cup
                (IF g.i < Len(g.pathes) THEN {[g EXCEPT !.i = @ + 1]} ELSE {})
    /\ UNCHANGED <<writer, buffer, updated, updateChan, stopChan, locker, timer,
                   sched, pos, maxSize, backupCount, closer, closeErr, wcnt, res,
                   accepted, rotations, crashed, now, rotateTimer, rotateErr,
                   handleClosed, handles>>
    /\ UNCHANGED uvars

(* purge, lines 459-466: one iteration of the loop, os.Remove of the i-th   *)
(* oldest file unless it is the open one; an error is only logged           *)
PurgeRemove(g, fail) ==
    /\ ~crashed
    /\ g \in purge /\ g.pc = "remove"
    /\ LET path == g.pathes[g.i]
           hit == fail /\ path # g.name /\ fs[path].ex
       IN  /\ fs' = IF path # g.name /\ fs[path].ex /\ ~fail
                    THEN [fs EXCEPT ![path] = NoFileEntry]
                    ELSE fs
           /\ faults' = Spend(hit)
    /\ purge' = (purge \ {g}) \cup
                (IF g.i < Count(g) THEN {[g EXCEPT !.i = @ + 1]} ELSE {})
    /\ UNCHANGED <<writer, buffer, updated, updateChan, stopChan, locker, timer,
                   sched, pos, maxSize, backupCount, closer, closeErr, wcnt, res,
                   accepted, rotations, crashed, now, rotateTimer, rotateErr,
                   handleClosed, handles>>
    /\ UNCHANGED uvars

NextTimed ==
    \/ \E n \in TimedLens, fail \in HandleFault :
          Issued < MaxLiveWrites /\ Write(1, n, fail)
    \/ CloseStop
    \/ \E ff \in HandleFault, cf \in HandleFault : CloseBody(ff, cf)
    \/ TimerFire
    \/ SchedUpdate
    \/ TimedSchedStop
    \/ SchedTimer
    \/ \E fail \in HandleFault : SchedFlush(fail)
    \/ ClockTick
    \/ RotateTimerFire
    \/ TimedSchedRotate
    \/ \E step \in TimedSteps : TimedRotate(step)
    \/ \E g \in purge : PurgeGlob(g)
    \/ \E g \in purge : PurgeName(g)
    \/ \E g \in purge, fail \in FaultChoice : PurgeRemove(g, fail)

SpecTimed == InitTimed /\ [][NextTimed]_vars

SpecTimedFaulty == InitTimedFaulty /\ [][NextTimed]_vars

-----------------------------------------------------------------------------
(* The constructors as steps of the behaviour: the directory starts empty   *)
(* and no writer exists until a constructor returns one.                    *)

RotateByDate == 0
RotateByHour == 1

(* the RotateDuration values a caller can pass: the two granularities and   *)
(* a value that is neither                                                   *)
RotateDurations == {RotateByDate, RotateByHour, RotateByHour + 1}

MaxSizes == 0..MaxMaxSize
BackupCounts == 0..MaxBackupCount

NotCalled == NewCall("none", 0, 0, 0, "nil")

InitNew ==
    /\ fs = [i \in Names |-> NoFileEntry]
    /\ writer = NilFile
    /\ buffer = NilBuffer
    /\ updated = FALSE
    /\ updateChan = 0
    /\ stopChan = FALSE
    /\ locker = 0
    /\ timer = "stopped"
    /\ sched = "none"
    /\ pos = 0 /\ maxSize = 0 /\ backupCount = 0
    /\ NoCalls
    /\ Untimed
    /\ faults = 0
    /\ newCall = NotCalled
    /\ NoLogger

(* NewRotatingFileWriter, lines 187-193: the checks before the file is      *)
(* opened                                                                    *)
RotatingConfigOK(m, b) == m # 0 /\ b # 0

(* NewRotatingFileWriter(path, m, b); fail is the file operation the        *)
(* environment fails: "open", "stat" or none                                 *)
NewRotatingFileWriter(m, b, fail) ==
    /\ newCall = NotCalled
    /\ IF ~RotatingConfigOK(m, b)
       THEN /\ newCall' = NewCall("rotating", m, b, 0, "config")
            /\ UNCHANGED <<fs, writer, buffer, timer, sched, pos, maxSize,
                           backupCount>>
       ELSE IF fail = "open"
       THEN /\ newCall' = NewCall("rotating", m, b, 0, "io")
            /\ UNCHANGED <<fs, writer, buffer, timer, sched, pos, maxSize,
                           backupCount>>
       ELSE IF fail = "stat"
       THEN /\ newCall' = NewCall("rotating", m, b, 0, "io")
            /\ fs' = OpenFile(fs, 0)
            /\ UNCHANGED <<writer, buffer, timer, sched, pos, maxSize,
                           backupCount>>
       ELSE /\ newCall' = NewCall("rotating", m, b, 0, "nil")
            /\ fs' = OpenFile(fs, 0)
            /\ writer' = 0
            /\ buffer' = NewWriterSize(SmallBufferSize)
            /\ timer' = "armed"
            /\ sched' = "idle"
            /\ pos' = StatSize(fs'[0].data)
            /\ maxSize' = m
            /\ backupCount' = b
    /\ UNCHANGED <<updated, updateChan, stopChan, locker, closer, closeErr,
                   wcnt, res, accepted, rotations, faults, crashed>>
    /\ UNCHANGED tvars
    /\ UNCHANGED <<logger, handlers, sinks, lastCall, holder, conv>>

(* an openTimedRotatingFile whose switch sends every other value to the     *)
(* RotateByDate case                                                         *)
openTimedRotatingFileAnyDuration(dir, rd, t, fail) ==
    IF fail THEN [fs |-> dir, f |-> NilFile, err |-> "io"]
    ELSE [fs |-> OpenFile(dir, t), f |-> t, err |-> "nil"]

(* openTimedRotatingFile(path, rd) at time t: the default case of the       *)
(* switch returns before os.OpenFile                                         *)
openTimedRotatingFile(dir, rd, t, fail) ==
    IF rd \notin {RotateByDate, RotateByHour}
    THEN [fs |-> dir, f |-> NilFile, err |-> "config"]
    ELSE IF fail THEN [fs |-> dir, f |-> NilFile, err |-> "io"]
    ELSE [fs |-> OpenFile(dir, t), f |-> t, err |-> "nil"]

(* NewTimedRotatingFileWriter(pathPrefix, rd, b) *)
NewTimedRotatingFileWriterCall(rd, b, fail) ==
    /\ newCall = NotCalled
    /\ IF b = 0
       THEN /\ newCall' = NewCall("timed", 0, b, rd, "config")
            /\ UNCHANGED <<fs, writer, buffer, timer, sched, backupCount,
                           rotateTimer, handles>>
       ELSE LET o == openTimedRotatingFile(fs, rd, now, fail)
            IN  /\ newCall' = NewCall("timed", 0, b, rd, o.err)
                /\ fs' = o.fs
                /\ IF o.err # "nil"
                   THEN UNCHANGED <<writer, buffer, timer, sched, backupCount,
                                    rotateTimer, handles>>
                   ELSE /\ handles' = 1
                        /\ writer' = o.f
                        /\ buffer' = NewWriterSize(SmallBufferSize)
                        /\ timer' = "armed"
                        /\ sched' = "idle"
                        /\ rotateTimer' = "armed"
                        /\ backupCount' = b
    /\ UNCHANGED <<updated, updateChan, stopChan, locker, pos, maxSize, closer,
                   closeErr, wcnt, res, accepted, rotations, faults, crashed,
                   now, rotateErr, handleClosed, purge>>
    /\ UNCHANGED <<logger, handlers, sinks, lastCall, holder, conv>>

(* the constructor returned a writer of this kind *)
Made(kind) == newCall.kind = kind /\ newCall.err = "nil"

(* the constructors, then the writer they returned; the timed writer within *)
(* its first rotate period                                                   *)
NextNew ==
    \/ \E m \in MaxSizes, b \in BackupCounts, fail \in {"no", "open", "stat"} :
          NewRotatingFileWriter(m, b, fail)
    \/ \E rd \in RotateDurations, b \in BackupCounts, fail \in Bool :
          NewTimedRotatingFileWriterCall(rd, b, fail)
    \/ \E n \in Lens, fp \in FaultPoints :
          Made("rotating") /\ Issued < MaxWrites /\ RotatingWrite(1, n, fp)
    \/ \E n \in TimedLens, fail \in HandleFault :
          Made("timed") /\ Issued < MaxLiveWrites /\ Write(1, n, fail)
    \/ (Made("rotating") \/ Made("timed")) /\ CloseStop
    \/ \E ff \in HandleFault, cf \in HandleFault : CloseBody(ff, cf)
    \/ TimerFire
    \/ SchedUpdate
    \/ Made("rotating") /\ SchedStop
    \/ Made("timed") /\ TimedSchedStop
    \/ SchedTimer
    \/ \E fail \in HandleFault : SchedFlush(fail)

SpecNew == InitNew /\ [][NextNew]_vars

-----------------------------------------------------------------------------
(* Any of the three buffered writers: the plain and the size-rotating one   *)
(* with I/O faults, the time-rotating one without.                          *)

(* the kind of the writer, by the fields its constructor sets *)
IsPlain == maxSize = 0 /\ backupCount = 0
IsRotating == maxSize > 0
IsTimed == maxSize = 0 /\ backupCount > 0

(* the rotating writers keep one backup *)
InitAny ==
    \/ Init
    \/ InitRot /\ backupCount = 1
    \/ InitTimed /\ backupCount = 1

(* the steps of the time-rotating writer through its first two rotations:   *)
(* the rotate timer fires twice                                              *)
NextTimedTwice ==
    \/ \E n \in TimedLens, fail \in HandleFault :
          Issued < MaxLiveWrites /\ Write(1, n, fail)
    \/ CloseStop
    \/ \E ff \in HandleFault, cf \in HandleFault : CloseBody(ff, cf)
    \/ TimerFire
    \/ SchedUpdate
    \/ TimedSchedStop
    \/ SchedTimer
    \/ \E fail \in HandleFault : SchedFlush(fail)
    \/ ClockTick
    \/ rotations <= 1 /\ RotateTimerFire
    \/ TimedSchedRotate
    \/ \E step \in TimedSteps : TimedRotate(step)
    \/ \E g \in purge : PurgeGlob(g)
    \/ \E g \in purge : PurgeName(g)
    \/ \E g \in purge, fail \in FaultChoice : PurgeRemove(g, fail)

NextAny ==
    \/ IsPlain /\ Next
    \/ IsRotating /\ NextRot
    \/ IsTimed /\ NextTimedTwice

SpecAny == InitAny /\ [][NextAny]_vars

-----------------------------------------------------------------------------
(* The three writers with w.locker.Lock() and w.locker.Unlock() as steps of *)
(* their own, without I/O faults: holder.p names the goroutine between Lock *)
(* and Unlock, holder.mark lets one see that it has run the code between    *)
(* them. The time-rotating writer gets two Writes from one caller.          *)

Proc(c) == IF c = 1 THEN "w1" ELSE "w2"

(* the purge goroutines that have yet to read the open file's name *)
NamePending == Cardinality({g \in purge : g.pc = "name"})

(* the holder has run the code between its Lock and its Unlock *)
Done ==
    CASE holder.p = "w1" -> wcnt[1] # holder.mark
      [] holder.p = "w2" -> wcnt[2] # holder.mark
      [] holder.p = "sched" -> sched # "flush"
      [] holder.p = "rotate" -> sched \notin {"rotateIdle", "rotateArmed"}
      [] holder.p = "close" -> closer # "stopping"
      [] holder.p = "purge" -> NamePending < holder.mark
      [] OTHER -> FALSE

(* everything but holder *)
nonlock == <<fs, writer, buffer, updated, updateChan, stopChan, locker, timer,
             sched, pos, maxSize, backupCount, closer, closeErr, wcnt, res,
             accepted, rotations, faults, crashed, now, rotateTimer, rotateErr,
             handleClosed, handles, purge, newCall, logger, handlers, sinks, lastCall,
             conv>>

(* w.locker.Lock() by p *)
Lock(p, m) ==
    /\ ~crashed
    /\ holder.p = "none"
    /\ holder' = [p |-> p, mark |-> m]
    /\ UNCHANGED nonlock

(* w.locker.Unlock() *)
Unlock ==
    /\ ~crashed
    /\ Done
    /\ holder' = NoHolder
    /\ UNCHANGED nonlock

(* code that runs without regard to the lock *)
HoldingNothing(p) == TRUE

(* p is between its Lock and its Unlock and has the code between them still *)
(* to run                                                                    *)
Holding(p) == holder.p = p /\ ~Done

InitMutex ==
    \/ InitBoth /\ backupCount <= 1
    \/ InitTimed /\ backupCount = 1

NextMutex ==
    \/ \E c \in Callers :
          /\ Issued < MaxLiveWrites /\ closer \in {"idle", "done"}
          /\ IsTimed => c = 1 /\ Issued <= 1
          /\ Lock(Proc(c), wcnt[c])
    \/ \E c \in Callers, n \in Lens, fail \in HandleFault :
          ~IsRotating /\ Holding(Proc(c)) /\ Write(c, n, fail)
    \/ \E c \in Callers, n \in Lens, fp \in FaultPoints :
          IsRotating /\ Holding(Proc(c)) /\ RotatingWrite(c, n, fp)
    \/ sched = "flush" /\ Lock("sched", 0)
    \/ \E fail \in HandleFault : Holding("sched") /\ SchedFlush(fail)
    \/ closer = "stopping" /\ Lock("close", 0)
    \/ \E ff \in HandleFault, cf \in HandleFault :
          Holding("close") /\ CloseBody(ff, cf)
    \/ sched \in {"rotateIdle", "rotateArmed"} /\ Lock("rotate", 0)
    \/ \E step \in TimedSteps : Holding("rotate") /\ TimedRotate(step)
    \/ NamePending > 0 /\ Lock("purge", NamePending)
    \/ \E g \in purge : Holding("purge") /\ PurgeName(g)
    \/ Unlock
    \/ CloseStop
    \/ TimerFire
    \/ SchedUpdate
    \/ ~IsTimed /\ SchedStop
    \/ IsTimed /\ TimedSchedStop
    \/ SchedTimer
    \/ IsTimed /\ ClockTick
    \/ rotations <= 1 /\ RotateTimerFire
    \/ TimedSchedRotate
    \/ \E g \in purge : PurgeGlob(g)
    \/ \E g \in purge, fail \in FaultChoice : PurgeRemove(g, fail)

SpecMutex == InitMutex /\ [][NextMutex]_vars

-----------------------------------------------------------------------------
(* The three writers without I/O faults, the scheduler goroutine scheduled  *)
(* fairly and its armed flush timer firing: each step the scheduler can     *)
(* take is taken unless it stops being possible.                            *)

SpecFair ==
    /\ InitMutex /\ [][NextAny]_vars
    /\ WF_vars(TimerFire)
    /\ WF_vars(SchedUpdate)
    /\ WF_vars(~IsTimed /\ SchedStop)
    /\ WF_vars(IsTimed /\ TimedSchedStop)
    /\ WF_vars(SchedTimer)
    /\ WF_vars(\E fail \in HandleFault : SchedFlush(fail))
    /\ WF_vars(TimedSchedRotate)
    /\ WF_vars(\E step \in TimedSteps : TimedRotate(step))

-----------------------------------------------------------------------------
(* Logger and Handler. A handler's writers are io.WriteClosers; each is     *)
(* modelled by the Write calls it received (out) and the number of Close    *)
(* calls (closes). A Write that returns an error is only reported to the    *)
(* internal logger, so the calls made do not depend on it.                  *)

MaxCalls == 4
MaxHandlers == 2
MaxWriters == 2

DebugLevel == 0
InfoLevel == 1
WarnLevel == 2
ErrorLevel == 3
CritLevel == 4

levelNames == <<"D", "I", "W", "E", "C">>

(* the Level values: the five levels and one above CritLevel *)
Levels == DebugLevel..(CritLevel + 1)

(* the levels a Record can carry: Log lets no other through *)
RecordLevels == DebugLevel..CritLevel

HandlerIds == {1, 2}
SinkIds == {1, 2}

(* the levels given to NewLogger and NewHandler: the lowest, one in the     *)
(* middle and one above CritLevel                                            *)
ConfigLevels == {DebugLevel, WarnLevel, CritLevel + 1}

(* fewer than MaxCalls calls were made on the Logger and its Handlers *)
MoreCalls == lastCall.n < MaxCalls
Messages == {"m"}

(* LevelFormatPart.Format: levelNames[int(r.level)], which panics on a     *)
(* level above CritLevel                                                    *)
LevelName(lv) == IF lv <= CritLevel THEN levelNames[lv + 1] ELSE "panic"

(* Formatter.Format: formatter 1 is "%l %m", every other is "%m" *)
Format(f, r) ==
    IF f = 1 THEN <<LevelName(r.level), r.message>> ELSE <<r.message>>

(* NewLogger(lv) and NewHandler(level, formatter) for each handler, no      *)
(* handler or writer added yet; the writers exist and are open              *)
InitLog ==
    /\ logger \in [level : ConfigLevels, handlers : {<<>>}]
    /\ handlers \in [HandlerIds -> [level : ConfigLevels, writers : {<<>>},
                                     closed : {0}]]
    /\ sinks = [s \in SinkIds |-> [out |-> <<>>, closes |-> 0]]
    /\ lastCall = [n |-> 0, op |-> "none", h |-> 0, level |-> 0, message |-> "", ret |-> "none"]
    /\ newCall = NotCalled
    /\ holder = NoHolder
    /\ conv = NoConv
    /\ fs = [i \in Names |-> NoFileEntry]
    /\ writer = NilFile
    /\ buffer = NilBuffer
    /\ updated = FALSE
    /\ updateChan = 0
    /\ stopChan = FALSE
    /\ locker = 0
    /\ timer = "stopped"
    /\ sched = "none"
    /\ pos = 0 /\ maxSize = 0 /\ backupCount = 0
    /\ NoCalls
    /\ Untimed
    /\ faults = 0

(* the file writer's state, which no Logger step touches *)
wvars == <<fs, writer, buffer, updated, updateChan, stopChan, locker, timer,
           sched, pos, maxSize, backupCount, closer, closeErr, wcnt, res,
           accepted, rotations, faults, crashed, now, rotateTimer, rotateErr,
           handleClosed, handles, purge, newCall, holder, conv>>

Called(op, h, lv, msg, ret) ==
    lastCall' = [n |-> lastCall.n + 1, op |-> op, h |-> h, level |-> lv,
                 message |-> msg, ret |-> ret]

(* Logger.AddHandler *)
AddHandler(h) ==
    /\ MoreCalls
    /\ Len(logger.handlers) < MaxHandlers
    /\ logger' = [logger EXCEPT !.handlers = Append(@, h)]
    /\ Called("AddHandler", h, 0, "", "none")
    /\ UNCHANGED <<handlers, sinks>>
    /\ UNCHANGED wvars

(* Handler.AddWriter *)
AddWriter(h, s) ==
    /\ MoreCalls
    /\ Len(handlers[h].writers) < MaxWriters
    /\ handlers' = [handlers EXCEPT ![h].writers = Append(@, s)]
    /\ Called("AddWriter", h, 0, "", "none")
    /\ UNCHANGED <<logger, sinks>>
    /\ UNCHANGED wvars

(* the loop of Handle, lines 40-45: w.Write(content) for each writer *)
RECURSIVE WriteAll(_, _, _)
WriteAll(sk, ws, content) ==
    IF ws = <<>> THEN sk
    ELSE WriteAll([sk EXCEPT ![Head(ws)].out = Append(@, content)], Tail(ws),
                  content)

(* a handler that ignores records at its own level *)
HandlesAbove(hd, r) == r.level > hd.level

(* Handle, line 35 *)
Handles(hd, r) == r.level >= hd.level

(* Handler.Handle(r) on the writers sk: the writers afterwards and the      *)
(* value returned                                                            *)
HandleOn(sk, hd, f, r) ==
    IF Handles(hd, r)
    THEN [sinks |-> WriteAll(sk, hd.writers, Format(f, r)), ret |-> "true"]
    ELSE [sinks |-> sk, ret |-> "false"]

Handle(h, lv, msg) ==
    /\ MoreCalls
    /\ LET o == HandleOn(sinks, handlers[h], h, [level |-> lv, message |-> msg])
       IN  /\ sinks' = o.sinks
           /\ Called("Handle", h, lv, msg, o.ret)
    /\ UNCHANGED <<logger, handlers>>
    /\ UNCHANGED wvars

(* a Log that checks the lower bound only *)
LogPassesUnbounded(lv) == ~(lv < logger.level)

(* Log, line 55 *)
LogPasses(lv) == ~(lv < logger.level \/ lv > CritLevel)

(* the loop of Log, lines 67-69 *)
RECURSIVE HandleAll(_, _, _)
HandleAll(sk, hs, r) ==
    IF hs = <<>> THEN sk
    ELSE HandleAll(HandleOn(sk, handlers[Head(hs)], Head(hs), r).sinks,
                   Tail(hs), r)

(* Logger.Log(lv, file, line, msg) *)
Log(lv, msg) ==
    /\ MoreCalls
    /\ sinks' = IF LogPasses(lv)
                THEN HandleAll(sinks, logger.handlers,
                               [level |-> lv, message |-> msg])
                ELSE sinks
    /\ Called("Log", 0, lv, msg, "none")
    /\ UNCHANGED <<logger, handlers>>
    /\ UNCHANGED wvars

(* the loop of Handler.Close, lines 56-61 *)
RECURSIVE CloseAll(_, _)
CloseAll(sk, ws) ==
    IF ws = <<>> THEN sk
    ELSE CloseAll([sk EXCEPT ![Head(ws)].closes = @ + 1], Tail(ws))

(* a Close that keeps the writer list *)
ClosedWritersKept(ws) == ws

(* Handler.Close, line 62: h.writers = nil *)
ClosedWriters(ws) == <<>>

(* Handler.Close *)
HandlerClose(h) ==
    /\ MoreCalls
    /\ sinks' = CloseAll(sinks, handlers[h].writers)
    /\ handlers' = [handlers EXCEPT ![h].writers = ClosedWriters(@),
                                    ![h].closed = @ + 1]
    /\ Called("Close", h, 0, "", "none")
    /\ UNCHANGED logger
    /\ UNCHANGED wvars

(* the steps of a program that uses a Logger, its Handlers and their        *)
(* writers from one goroutine                                                *)
NextLog ==
    \/ \E h \in HandlerIds : AddHandler(h)
    \/ \E h \in HandlerIds, s \in SinkIds : AddWriter(h, s)
    \/ \E h \in HandlerIds, lv \in RecordLevels, msg \in Messages :
          Handle(h, lv, msg)
    \/ \E lv \in Levels, msg \in Messages : Log(lv, msg)
    \/ \E h \in HandlerIds : HandlerClose(h)

SpecLog == InitLog /\ [][NextLog]_vars

----------------------------------------------------------------------------
(* The time-rotating writer with one backup through its first two           *)
(* rotations, its I/O failing where the environment chooses                 *)

InitTimedTwice == InitTimedFaulty /\ backupCount = 1

SpecTimedTwice == InitTimedTwice /\ [][NextTimedTwice]_vars

----------------------------------------------------------------------------
(* Properties *)

NoIOError == faults = MaxFaults

Last(s) == s[Len(s)]

(* where the bytes of caller c's k-th record are in data *)
Positions(data, c, k) ==
    {i \in 1..Len(data) : data[i][1] = c /\ data[i][2] = k}

(* the record lies in data whole, contiguous and once *)
WholeIn(data, c, k, n) ==
    /\ Cardinality(Positions(data, c, k)) = n
    /\ n > 0 => \E i \in 1..(Len(data) - n + 1) :
                   \A j \in 1..n : data[i + j - 1] = <<c, k, j>>

RECURSIVE SumLen(_)
SumLen(rs) == IF rs = <<>> THEN 0 ELSE Head(rs).len + SumLen(Tail(rs))

TotalLen == SumOver([c \in Callers |-> SumLen(res[c])], Callers)

(* the backups from the oldest name to path.1, then the active file, then   *)
(* the bytes still buffered                                                 *)
RECURSIVE OlderFrom(_)
OlderFrom(i) ==
    IF i > MaxBackupCount + 1 THEN <<>> ELSE OlderFrom(i + 1) \o fs[i].data

Stream == OlderFrom(1) \o fs[0].data \o buffer.buf

(* C1: concurrent Writes of several goroutines followed by one Close,       *)
(* without I/O errors, leave a file that is an interleaving of whole         *)
(* records: its length is the sum of the record lengths and every record    *)
(* is in it exactly once and contiguously.                                   *)
C1_ConcurrentWritesIntact ==
    (closer = "done" /\ closeErr = "nil" /\ NoIOError) =>
        /\ Len(fs[0].data) = TotalLen
        /\ \A c \in Callers : \A k \in 1..Len(res[c]) :
              WholeIn(fs[0].data, c, k, res[c][k].len)

C1_Witness ==
    /\ closer = "done" /\ closeErr = "nil" /\ NoIOError
    /\ Len(fs[0].data) > SmallBufferSize
    /\ \E i, j, k \in 1..Len(fs[0].data) :
          /\ i < j /\ j < k
          /\ fs[0].data[i][1] = 1 /\ fs[0].data[j][1] = 2 /\ fs[0].data[k][1] = 1

(* C2: when Close returns without error the buffer is gone and empty, the   *)
(* file handle is unset, and the file holds exactly the accepted bytes in   *)
(* the order they were appended to the buffer.                               *)
C2_CloseFlushesAll ==
    (closer = "done" /\ closeErr = "nil") =>
        /\ buffer.nil /\ Buffered(buffer) = 0
        /\ writer = NilFile
        /\ fs[0].data = accepted

C2_Witness ==
    /\ closer = "done" /\ closeErr = "nil"
    /\ updateChan = 1 /\ sched = "idle"
    /\ Len(accepted) >= 2
    /\ fs[0].data = accepted

(* C3: under fair scheduling and without I/O errors every accepted byte     *)
(* eventually is in the file, byte for byte in write order, whether or not  *)
(* another Write or a Close follows.                                         *)
C3_AcceptedEventuallyVisible ==
    \A n \in 1..(MaxLiveWrites * MaxLen) :
        (Len(accepted) >= n) ~>
            (Len(fs[0].data) >= n /\ Take(fs[0].data, n) = Take(accepted, n))

C3_Witness ==
    /\ closer = "idle"
    /\ accepted # <<>> /\ Len(accepted) <= SmallBufferSize
    /\ fs[0].data = accepted
    /\ sched = "idle" /\ ~updated

(* C4: the records one caller writes one after the other keep their order:  *)
(* in the backups from oldest to newest, then the active file, then the     *)
(* buffer, an earlier record's bytes come before a later record's.          *)
C4_CallerOrderKept ==
    \A c \in Callers :
        LET own == SelectSeq(Stream, LAMBDA b : b[1] = c) IN
        \A i \in 1..(Len(own) - 1) :
            \/ own[i][2] < own[i + 1][2]
            \/ own[i][2] = own[i + 1][2] /\ own[i][3] < own[i + 1][3]

C4_Witness ==
    /\ maxSize > 0
    /\ Positions(fs[1].data, 1, 1) # {}
    /\ Positions(fs[0].data, 2, 1) # {}
    /\ Positions(buffer.buf, 1, 2) # {}

(* the files holding bytes of caller c's k-th record; buffered bytes belong *)
(* to the active file                                                        *)
FilesOf(c, k) ==
    {f \in Names : Positions(fs[f].data, c, k) # {}} \cup
    (IF Positions(buffer.buf, c, k) # {} THEN {0} ELSE {})

(* C5: size rotation never splits one Write across two files, whatever its  *)
(* length relative to maxSize and to the buffer capacity.                    *)
C5_NoSplit ==
    \A c \in Callers : \A k \in 1..Len(res[c]) : Cardinality(FilesOf(c, k)) <= 1

C5_Witness ==
    \E k \in 1..Len(res[1]) :
        /\ res[1][k].len > maxSize /\ res[1][k].len > SmallBufferSize
        /\ WholeIn(fs[1].data, 1, k, res[1][k].len)
        /\ rotations >= 3

(* C6: a Write of len(p) >= maxSize that returns without error leaves p     *)
(* alone in path.1, the active file empty, the buffer empty and pos = 0.    *)
C6_OversizedAlone ==
    [][\A c \in RotCallers :
          (/\ Len(res'[c]) = Len(res[c]) + 1
           /\ Last(res'[c]).len >= maxSize
           /\ Last(res'[c]).err = "nil")
          => /\ fs'[1].ex /\ fs'[1].data = Rec(c, wcnt'[c], Last(res'[c]).len)
             /\ fs'[0].ex /\ fs'[0].data = <<>>
             /\ ~buffer'.nil /\ Buffered(buffer') = 0
             /\ pos' = 0]_vars

C6_Witness ==
    /\ res[1] # <<>>
    /\ Last(res[1]).len >= maxSize /\ Last(res[1]).len > SmallBufferSize
    /\ Last(res[1]).err = "nil"
    /\ Len(res[1]) >= 2 /\ fs[2].ex /\ fs[2].data # <<>>
    /\ fs[1].data = Rec(1, wcnt[1], Last(res[1]).len)
    /\ fs[0].data = <<>> /\ pos = 0

(* the Writes of caller 1 that returned without error *)
Written == Cardinality({k \in 1..Len(res[1]) : res[1][k].err = "nil"})

(* records per file and bytes per full file, for records of one length *)
PerFile == maxSize \div res[1][1].len
FullFile == PerFile * res[1][1].len

(* C7: records of one length r < maxSize written to an empty file rotate    *)
(* exactly when pos + r would exceed maxSize, so after m records there      *)
(* were (m - 1) div (maxSize div r) rotations and every backup holds        *)
(* (maxSize div r) * r bytes; for maxSize = 128, r = 10: after 20 records   *)
(* path.1 has 120 bytes, path.2 does not exist and the flushed active file  *)
(* has 80; after 40 records path.1 and path.2 have 120 each, the active 40. *)
C7_UniformRotation ==
    Written >= 1 =>
        /\ rotations = (Written - 1) \div PerFile
        /\ pos = (Written - rotations * PerFile) * res[1][1].len
        /\ Len(fs[0].data) + Buffered(buffer) = pos
        /\ \A i \in 1..(MaxBackupCount + 1) :
              fs[i].ex => Len(fs[i].data) = FullFile
        /\ (maxSize = TestMaxSize /\ Written = TestBatch) =>
              /\ fs[1].ex /\ Len(fs[1].data) = 120
              /\ ~fs[2].ex
              /\ Buffered(buffer) = 0 => Len(fs[0].data) = 80
        /\ (maxSize = TestMaxSize /\ Written = 2 * TestBatch) =>
              /\ fs[1].ex /\ Len(fs[1].data) = 120
              /\ fs[2].ex /\ Len(fs[2].data) = 120
              /\ Buffered(buffer) = 0 => Len(fs[0].data) = 40

C7_Witness ==
    /\ maxSize = TestMaxSize /\ Written = 2 * TestBatch
    /\ Len(fs[1].data) = 120 /\ Len(fs[2].data) = 120
    /\ Buffered(buffer) = 0 /\ Len(fs[0].data) = 40
    /\ closer = "idle"

(* C8, as claimed: after the second batch path.2 retains the first 120      *)
(* bytes ever written, path.1 holds the next 120 and the active file 40.    *)
C8_FirstBytesRetained ==
    (maxSize = TestMaxSize /\ Written = 2 * TestBatch) =>
        /\ fs[2].data = SubSeq(accepted, 1, 120)
        /\ fs[1].data = SubSeq(accepted, 121, 240)
        /\ Len(fs[0].data) + Buffered(buffer) = 40

(* C8, amended: the second batch rotates twice (three rotations in all);    *)
(* the first 120 bytes pass through path.2 and are discarded, and at the    *)
(* end path.2 holds bytes 121..240, path.1 bytes 241..360 and the active    *)
(* file with its buffer the 40 bytes 361..400.                               *)
C8_SecondBatchShifts ==
    (maxSize = TestMaxSize /\ Written = 2 * TestBatch) =>
        /\ rotations = 3
        /\ fs[2].data = SubSeq(accepted, 121, 240)
        /\ fs[1].data = SubSeq(accepted, 241, 360)
        /\ fs[0].data \o buffer.buf = SubSeq(accepted, 361, 400)

C8_Witness ==
    /\ maxSize = TestMaxSize /\ Written = 2 * TestBatch
    /\ fs[2].data = SubSeq(accepted, 121, 240)
    /\ fs[0].data = SubSeq(accepted, 361, 400)

(* the place of a byte in the accepted stream *)
AcceptedAt(b) == CHOOSE i \in 1..Len(accepted) : accepted[i] = b

(* C9: no path.i with i > backupCount ever exists, and, rotations not       *)
(* failing, after k rotations exactly path.1 .. path.min(k, backupCount)    *)
(* exist, a higher number holding strictly older bytes.                      *)
C9_BackupChain ==
    /\ \A i \in Names : i > backupCount => ~fs[i].ex
    /\ NoIOError =>
          /\ \A i \in 1..backupCount : fs[i].ex <=> i <= rotations
          /\ \A i, j \in 1..backupCount :
                i < j =>
                   \A x \in 1..Len(fs[i].data), y \in 1..Len(fs[j].data) :
                       AcceptedAt(fs[j].data[y]) < AcceptedAt(fs[i].data[x])

C9_Witness ==
    /\ NoIOError
    /\ backupCount >= 2 /\ rotations > backupCount
    /\ \A i \in 1..backupCount : fs[i].ex /\ fs[i].data # <<>>

(* C10: a Write after Close has returned is rejected with a ClosedError,    *)
(* accepts no bytes and does not crash.                                      *)
C10_WriteAfterCloseRejected ==
    /\ ~crashed
    /\ \A c \in Callers : \A k \in 1..Len(res[c]) :
          res[c][k].afterClose => res[c][k].err = "closed" /\ res[c][k].n = 0

(* C11: once a failed rotation step has unset the file handle (no Close     *)
(* called), every later Write returns a ClosedError: it accepts no bytes    *)
(* and does not crash.                                                       *)
C11_FailedRotateRejectsWrites ==
    closer = "idle" =>
        /\ ~crashed
        /\ \A c \in Callers : \A k \in 1..Len(res[c]) :
              res[c][k].file = NilFile =>
                 res[c][k].err = "closed" /\ res[c][k].n = 0

(* C12: when Close has returned, the scheduler goroutine of the writer has  *)
(* already terminated.                                                       *)
C12_SchedulerDoneAtCloseReturn == closer = "done" => sched = "done"

(* the file that was open when the Write that accepted byte b was called *)
FileOfByte(b) == res[b[1]][b[2]].file

(* the bytes accepted while file d was the open one, in acceptance order *)
AcceptedInto(d) == SelectSeq(accepted, LAMBDA b : FileOfByte(b) = d)

(* C13: a time rotation flushes every byte accepted before it into the file *)
(* that was open, then opens the file named by the current clock (created   *)
(* empty if new); bytes accepted afterwards go only to the new file.  So a  *)
(* file holds exactly the bytes accepted while it was open, the open file   *)
(* together with the buffer.                                                 *)
C13_TimedRotationKeepsBytes ==
    /\ [](\A d \in Days :
             fs[d].ex =>
                fs[d].data \o (IF writer = d THEN buffer.buf ELSE <<>>)
                   = AcceptedInto(d))
    /\ [][rotations' = rotations + 1 =>
             /\ writer' = now
             /\ fs'[now].ex
             /\ buffer'.buf = <<>>
             /\ ~fs[now].ex => fs'[now].data = <<>>
             /\ fs'[writer].data = AcceptedInto(writer)]_vars

(* a rotation, not the flush timer, flushed a byte into the old file, and   *)
(* a byte accepted after it is buffered for the new file                     *)
C13_Witness ==
    /\ rotations = 1 /\ writer = 1
    /\ closer = "idle" /\ sched = "idle" /\ updateChan = 1
    /\ Len(fs[0].data) = 1
    /\ Len(buffer.buf) = 1

(* the files with the prefix that exist *)
Existing == {d \in Days : fs[d].ex}

(* C14: once a time rotation's purge passes have completed, at most         *)
(* backupCount + 1 files with the prefix remain; a purge removes only the   *)
(* oldest existing file, never the open one, and only while at least        *)
(* backupCount + 1 newer files exist, so the open file and the backupCount  *)
(* most recent earlier files stay.                                           *)
C14_Retention ==
    /\ [](purge = {} => Cardinality(Existing) <= backupCount + 1)
    /\ [][\A d \in Days :
             fs[d].ex /\ ~fs'[d].ex =>
                /\ d # writer
                /\ \A e \in Existing : e >= d
                /\ Cardinality({e \in Existing : e > d}) >= backupCount + 1]_vars

(* backupCount = 2: the fourth file was created and the first removed *)
C14_Witness ==
    /\ backupCount = 2
    /\ purge = {}
    /\ writer = 3
    /\ Existing = {1, 2, 3}

(* C15: no purge pass removes the file that is open for writing, however    *)
(* the purge goroutines interleave with writes and with further rotations:  *)
(* the open file always exists, and no step removes it.                      *)
C15_OpenFileNeverPurged ==
    /\ [](writer # NilFile => fs[writer].ex)
    /\ [][\A g \in purge :
             g.pc = "remove" /\ writer # NilFile => fs'[writer].ex]_vars

(* a rotation happened between a purge reading the open file's name and     *)
(* its removing files: the name it spares is no longer the open file        *)
C15_Witness ==
    \E g \in purge :
        /\ g.pc = "remove"
        /\ writer # NilFile
        /\ g.name # NilFile /\ g.name # writer

(* C16: when the clock has jumped over several rotate durations before the  *)
(* rotate timer is lastCall, the one fire leads to one rotation, which opens *)
(* the file of the current clock value: a file is only ever created by a    *)
(* rotation, for the clock value at that moment, and each rotation uses up  *)
(* one fire of the timer and arms it again.                                  *)
C16_NoBackfill ==
    /\ [][\A d \in Days :
             ~fs[d].ex /\ fs'[d].ex =>
                d = now /\ writer' = d /\ rotations' = rotations + 1]_vars
    /\ [][rotations' # rotations =>
             /\ rotations' = rotations + 1
             /\ rotateTimer = "stopped" /\ rotateTimer' = "armed"
             /\ writer' = now]_vars

(* the clock went from 0 to 2 before the first rotation: no file for 1 *)
C16_Witness ==
    /\ rotations = 1
    /\ writer = 2
    /\ Existing = {0, 2}

(* C17: an I/O error met inside the scheduler is never returned by a Write  *)
(* nor affects one: as long as no Write has failed before, a Write that     *)
(* returns an I/O error met that error in a file operation of its own.      *)
C17_SchedulerErrorsStayInternal ==
    [][\A c \in Callers :
          /\ Len(res'[c]) > Len(res[c]) /\ Last(res'[c]).err = "io"
          /\ \A d \in Callers : \A k \in 1..Len(res[d]) : res[d][k].err # "io"
          => faults' < faults]_vars

(* C18: after a time rotation attempt has failed with an I/O error, the     *)
(* rotate timer is armed again, so that a rotation is attempted at the next *)
(* boundary.                                                                 *)
C18_RotateTimerRearmed ==
    rotateErr = "io" /\ sched \in {"idle", "armed", "flush"} =>
        rotateTimer \in {"armed", "fired"}

(* the Write call that returned in this step: its caller and its record's   *)
(* length                                                                    *)
Returning(c) == Len(res'[c]) > Len(res[c])
ReturnedLen(c) == Last(res'[c]).len

(* the record of n bytes goes into the buffer's free space without a size   *)
(* rotation                                                                  *)
FitsBuffer(n) ==
    /\ ~buffer.nil
    /\ n <= buffer.size - Buffered(buffer)
    /\ maxSize > 0 => n < maxSize /\ pos + n <= maxSize

(* C19 as stated: no Write performs file I/O; the files are unchanged when  *)
(* a Write returns.                                                          *)
C19_WriteDoesNoFileIO ==
    [][\A c \in Callers : Returning(c) => fs' = fs]_vars

(* C19, amended: a Write whose record fits the buffer's free space (and, on *)
(* a size rotator, needs no rotation) leaves the files unchanged; a record  *)
(* larger than the free space is written to the file by the Write call      *)
(* itself.                                                                   *)
C19_FittingWriteDoesNoFileIO ==
    [][\A c \in Callers :
          Returning(c) =>
             /\ FitsBuffer(ReturnedLen(c)) => fs' = fs
             /\ /\ ~buffer.nil /\ rotations' = rotations
                /\ ReturnedLen(c) > buffer.size - Buffered(buffer)
                => Len(fs'[0].data) > Len(fs[0].data)]_vars

(* a record that fitted is buffered, the file still empty *)
C19_Witness ==
    /\ closer = "idle"
    /\ Len(res[1]) = 1 /\ res[1][1].len = 2 /\ res[1][1].n = 2
    /\ res[2] = <<>>
    /\ Len(buffer.buf) = 2
    /\ fs[0].data = <<>>

C22_ResumeLikeWritten ==
    [][\A c \in Callers :
          /\ Returning(c) /\ ReturnedLen(c) < maxSize
          /\ writer # NilFile /\ ~buffer.err /\ faults' = faults
          => LET n == ReturnedLen(c)
                 held == fs[0].data \o buffer.buf
             IN  IF Len(held) + n > maxSize
                 THEN /\ rotations' = rotations + 1
                      /\ fs'[1].ex /\ fs'[1].data = held
                      /\ fs'[0].data \o buffer'.buf = Rec(c, wcnt'[c], n)
                      /\ pos' = n
                 ELSE /\ rotations' = rotations
                      /\ fs'[0].data \o buffer'.buf = held \o Rec(c, wcnt'[c], n)
                      /\ pos' = Len(held) + n]_vars

(* the first Write found s + len(p) > maxSize: the bytes found at           *)
(* construction are in path.1, the record in the new file                    *)
C22_Witness ==
    /\ rotations = 1
    /\ Len(res[1]) = 1 /\ res[1][1].len < maxSize /\ res[1][1].err = "nil"
    /\ res[1][1].n > 0
    /\ fs[1].ex /\ Len(fs[1].data) > 0
    /\ \A i \in 1..Len(fs[1].data) : fs[1].data[i][1] = 0
    /\ Len(fs[0].data) + Buffered(buffer) = res[1][1].len

(* C23: a constructor called with an invalid configuration (maxSize 0 or    *)
(* backupCount 0 for NewRotatingFileWriter; backupCount 0 or a granularity  *)
(* that is neither RotateByDate nor RotateByHour for                        *)
(* NewTimedRotatingFileWriter) returns an error, and then and ever after no *)
(* writer exists, no file has been created, no handle is held and neither   *)
(* the scheduler goroutine nor one of its timers has been started.          *)
InvalidConfig(call) ==
    IF call.kind = "rotating"
    THEN call.maxSize = 0 \/ call.backupCount = 0
    ELSE \/ call.backupCount = 0
         \/ call.rotateDuration \notin {RotateByDate, RotateByHour}

C23_InvalidConfigRejected ==
    newCall.kind \in {"rotating", "timed"} /\ InvalidConfig(newCall)
    => /\ newCall.err # "nil"
       /\ writer = NilFile
       /\ buffer = NilBuffer
       /\ \A i \in Names : ~fs[i].ex
       /\ sched = "none"
       /\ timer = "stopped"
       /\ rotateTimer = "stopped"

C23_Witness ==
    /\ newCall.kind = "timed"
    /\ newCall.backupCount > 0
    /\ newCall.rotateDuration \notin {RotateByDate, RotateByHour}
    /\ newCall.err = "config"

(* the number of times s was added to the writer list ws *)
Entries(s, ws) == Cardinality({i \in 1..Len(ws) : ws[i] = s})

Repeat(x, k) == [i \in 1..k |-> x]

(* the step is a call of op on the Logger or a Handler *)
CallOf(op) == lastCall'.n # lastCall.n /\ lastCall'.op = op

(* the record of the call *)
CallRecord == [level |-> lastCall'.level, message |-> lastCall'.message]

(* C24: Handler.Handle(r) with r.level >= the handler's level returns true  *)
(* and calls Write with the formatted record once for each entry of the     *)
(* handler's writer list, and nothing else; with r.level below the          *)
(* handler's level it returns false and no writer receives anything.        *)
C24_HandleByLevel ==
    [][CallOf("Handle")
       => LET h == lastCall'.h
              r == CallRecord
          IN  IF r.level >= handlers[h].level
              THEN /\ lastCall'.ret = "true"
                   /\ \A s \in SinkIds :
                         sinks'[s] =
                            [sinks[s] EXCEPT
                               !.out = @ \o Repeat(Format(h, r),
                                                   Entries(s, handlers[h].writers))]
              ELSE /\ lastCall'.ret = "false"
                   /\ sinks' = sinks]_vars

C24_Witness ==
    /\ lastCall.op = "Handle"
    /\ lastCall.ret = "true"
    /\ lastCall.level = handlers[lastCall.h].level
    /\ handlers[lastCall.h].writers = <<1, 2>>
    /\ sinks[1].out = <<Format(lastCall.h, lastCall)>>
    /\ sinks[2].out = <<Format(lastCall.h, lastCall)>>

(* C25: Handler.Close may be called any number of times: each call invokes  *)
(* Close once for each entry of the handler's writer list, that is each     *)
(* writer added since the previous Close, and empties the list; a call that *)
(* finds the list empty closes nothing.                                     *)
C25_CloseClosesListedWriters ==
    [][CallOf("Close")
       => LET h == lastCall'.h
          IN  /\ \A s \in SinkIds :
                    sinks'[s] =
                       [sinks[s] EXCEPT
                          !.closes = @ + Entries(s, handlers[h].writers)]
              /\ handlers'[h].writers = <<>>]_vars

(* C25 as stated: the first call closes each added writer once and empties  *)
(* the list, and every later call closes nothing.                           *)
C25_LaterCloseClosesNothing ==
    [][CallOf("Close")
       => LET h == lastCall'.h
          IN  IF handlers[h].closed = 0
              THEN /\ \A s \in SinkIds :
                         sinks'[s] =
                            [sinks[s] EXCEPT
                               !.closes = @ + Entries(s, handlers[h].writers)]
                   /\ handlers'[h].writers = <<>>
              ELSE sinks' = sinks]_vars

C25_Witness ==
    /\ lastCall.op = "Close"
    /\ handlers[lastCall.h].closed = 2
    /\ handlers[lastCall.h].writers = <<>>
    /\ \E s \in SinkIds : sinks[s].closes = 1

(* what Log(lv, msg) has the handlers hs write to s, in order *)
RECURSIVE Deliveries(_, _, _)
Deliveries(hs, s, r) ==
    IF hs = <<>> THEN <<>>
    ELSE LET h == Head(hs)
         IN  (IF logger.level <= r.level /\ r.level <= CritLevel
                    /\ r.level >= handlers[h].level
              THEN Repeat(Format(h, r), Entries(s, handlers[h].writers))
              ELSE <<>>) \o Deliveries(Tail(hs), s, r)

(* C26: Logger.Log(lv, ...) has a handler of the logger write the record to *)
(* its writers if and only if logger level <= lv <= CritLevel and lv >=     *)
(* that handler's level; a record below the logger's level reaches no       *)
(* writer of any handler.                                                    *)
C26_LogByLevels ==
    [][CallOf("Log")
       => /\ \A s \in SinkIds :
                sinks'[s] =
                   [sinks[s] EXCEPT
                      !.out = @ \o Deliveries(logger.handlers, s, CallRecord)]
          /\ lastCall'.level < logger.level => sinks' = sinks]_vars

C26_Witness ==
    /\ lastCall.op = "Log"
    /\ lastCall.level = logger.level
    /\ logger.handlers # <<>>
    /\ LET h == logger.handlers[1]
       IN  /\ handlers[h].level = lastCall.level
           /\ handlers[h].writers = <<1>>
           /\ sinks[1].out = <<Format(h, lastCall)>>

(* the step sets the updated flag and sends on updateChan *)
Signalled == updated' /\ ~updated

(* the Write of caller c takes the len(p) >= maxSize branch of              *)
(* RotatingFileWriter.Write                                                  *)
Oversized(c) == IsRotating /\ ReturnedLen(c) >= maxSize

(* C27 as stated: a Write sends the dirty signal exactly when it finds the  *)
(* updated flag false and leaves bytes buffered.                            *)
C27_SignalWhenBytesBuffered ==
    [][\A c \in Callers :
          Returning(c)
          => (Signalled <=> ~updated /\ ~buffer'.nil /\ Buffered(buffer') > 0)]_vars

(* C27: a Write sends the dirty signal exactly when it finds the updated    *)
(* flag false, accepts at least one byte and leaves bytes buffered, and not *)
(* in the len(p) >= maxSize branch of the size-rotating writer; a signal is *)
(* pending only while the flag is true, so the channel is empty whenever a  *)
(* send is attempted, and no Write ever waits in the send holding the lock. *)
C27_SignalOncePerDirtyPeriod ==
    /\ [](locker = 0)
    /\ [](updateChan = 1 => updated)
    /\ [][\A c \in Callers :
             Returning(c)
             => /\ Signalled <=> /\ ~updated
                                 /\ Last(res'[c]).n > 0
                                 /\ ~buffer'.nil /\ Buffered(buffer') > 0
                                 /\ ~Oversized(c)
                /\ Signalled => updateChan = 0 /\ updateChan' = 1
                /\ ~Signalled => updateChan' = updateChan]_vars

C27_Witness ==
    /\ updated /\ updateChan = 0 /\ sched = "armed"
    /\ Len(res[1]) = 2
    /\ res[1][1].n > 0 /\ res[1][2].n > 0
    /\ ~buffer.nil /\ Buffered(buffer) > 0
    /\ closer = "idle"

(* a purge goroutine reads the open file's name in this step *)
NameRead == \E g \in purge : g.pc = "name" /\ g \notin purge'

(* C28: every step that reads or changes the buffer, the file handle, the   *)
(* updated flag or the position counter is taken by the goroutine that      *)
(* holds the mutex, between its Lock and its Unlock: a Write's append (and  *)
(* the size rotation inside it), the scheduler's flush, the time rotation,  *)
(* Close's final flush and purge's read of the open handle; and the mutex   *)
(* passes from one holder to the next only through being free.              *)
C28_AccessUnderLock ==
    /\ [][/\ (buffer' # buffer \/ writer' # writer \/ updated' # updated
              \/ pos' # pos \/ rotations' # rotations \/ NameRead)
             => holder.p # "none" /\ ~Done /\ holder' = holder
          /\ \A c \in Callers : wcnt'[c] # wcnt[c] => holder.p = Proc(c)
          /\ sched = "flush" /\ sched' # sched => holder.p = "sched"
          /\ sched \in {"rotateIdle", "rotateArmed"} /\ sched' # sched
             => holder.p = "rotate"
          /\ closer = "stopping" /\ closer' # closer => holder.p = "close"
          /\ NameRead => holder.p = "purge"]_vars
    /\ [][holder' # holder
          => (holder.p = "none") # (holder'.p = "none")]_vars

C28_Witness ==
    /\ holder.p = "purge" /\ Done
    /\ rotations = 2
    /\ updated /\ ~buffer.nil /\ Buffered(buffer) > 0
    /\ closer = "stopping"

(* C29: once Close has closed the stop channel the scheduler goroutine      *)
(* returns, whatever it was doing - waiting idle, waiting with the flush    *)
(* timer armed, or in the middle of a flush or a rotation - for the plain,  *)
(* the size-rotating and the time-rotating writer, when it is scheduled     *)
(* fairly (or the program has panicked); in either wait it can take the     *)
(* stop at once, and it returns with its timers stopped.                    *)
C29_SchedulerTerminates ==
    /\ [](~crashed /\ stopChan /\ sched \in {"idle", "armed"}
          => IF IsTimed THEN ENABLED TimedSchedStop ELSE ENABLED SchedStop)
    /\ [](sched \in {"idle", "armed", "flush", "rotateIdle", "rotateArmed",
                      "done"})
    /\ stopChan ~> (sched = "done" \/ crashed)
    /\ [](sched = "done" => timer = "stopped" /\ rotateTimer = "stopped")

C29_Witness ==
    /\ IsTimed
    /\ sched = "done"
    /\ rotations = 1
    /\ closer = "stopping"
    /\ timer = "stopped" /\ rotateTimer = "stopped"
    /\ ~buffer.nil /\ Buffered(buffer) > 0

(* C30: the time-rotating scheduler takes a fired rotate timer in its idle  *)
(* wait and in its wait with the flush timer armed alike, whether or not    *)
(* the flush timer has fired; the rotation handled with the flush timer     *)
(* armed leaves that timer as it was and returns to the same wait, and the  *)
(* flush follows unless the scheduler is stopped first.                     *)
C30_RotateNotDeferred ==
    /\ [](IsTimed /\ ~crashed /\ rotateTimer = "fired"
          /\ sched \in {"idle", "armed"}
          => ENABLED TimedSchedRotate)
    /\ [][sched = "rotateArmed" /\ sched' # sched
          => /\ sched' = "armed"
             /\ timer' = timer /\ timer \in {"armed", "fired"}]_vars
    /\ [][sched = "rotateIdle" /\ sched' # sched => sched' = "idle"]_vars
    /\ (sched = "rotateArmed") ~> (sched \in {"flush", "done"} \/ crashed)

C30_Witness ==
    /\ sched = "armed" /\ timer = "armed"
    /\ rotations = 1 /\ rotateTimer = "armed"
    /\ rotateErr = "nil"
    /\ updated
    /\ ~stopChan

----------------------------------------------------------------------------
(* The flush timer at the granularity of the runtime.  A time.Timer that    *)
(* expires is first taken off the runtime's timer heap, from when Stop      *)
(* reports false, and its value is sent to timer.C in a later step          *)
(* (buffered channel of capacity 1, non-blocking send).  The timer is       *)
(*   "armed"    active, timer.C empty                                       *)
(*   "expired"  inactive, its send still to come, timer.C empty             *)
(*   "fired"    inactive, its value in timer.C                              *)
(*   "stopped"  inactive, timer.C empty                                     *)
(*   "late"     active again after Reset, the send of the expiry before     *)
(*              the Reset still to come, timer.C empty                      *)
(*   "stale"    active again after Reset, timer.C holding the value of the  *)
(*              expiry before the Reset                                     *)

(* stopTimer: if !timer.Stop() { select { case <-timer.C: default: } }.     *)
(* Stop reports true for an active timer and nothing is drained; it         *)
(* reports false for an inactive one, and the receive takes the value that  *)
(* is in timer.C, if one is there already                                   *)
stopTimer(t) ==
    CASE t = "armed"   -> "stopped"
      [] t = "fired"   -> "stopped"
      [] t = "stopped" -> "stopped"
      [] t = "expired" -> "expired"
      [] t = "late"    -> "expired"
      [] t = "stale"   -> "fired"

(* timer.Reset(flushDuration) on a timer that stopTimer left inactive *)
Reset(t) ==
    CASE t = "stopped" -> "armed"
      [] t = "expired" -> "late"
      [] t = "fired"   -> "stale"

(* the runtime takes the expiring flush timer off its heap.  A timer that   *)
(* expires while timer.C is full has its value dropped by the send.         *)
TimerExpire ==
    /\ ~crashed
    /\ timer \in {"armed", "late", "stale"}
    /\ timer' = IF timer = "stale" THEN "fired" ELSE "expired"
    /\ UNCHANGED <<fs, writer, buffer, updated, updateChan, stopChan, locker,
                   sched, pos, maxSize, backupCount, closer, closeErr, wcnt, res,
                   accepted, rotations, faults, crashed>>
    /\ UNCHANGED tvars
    /\ UNCHANGED uvars

(* the runtime sends the value of an expired flush timer to timer.C *)
TimerSend ==
    /\ ~crashed
    /\ timer \in {"expired", "late"}
    /\ timer' = IF timer = "late" THEN "stale" ELSE "fired"
    /\ UNCHANGED <<fs, writer, buffer, updated, updateChan, stopChan, locker,
                   sched, pos, maxSize, backupCount, closer, closeErr, wcnt, res,
                   accepted, rotations, faults, crashed>>
    /\ UNCHANGED tvars
    /\ UNCHANGED uvars

(* schedule, first select, case <-w.updateChan: stopTimer, then Reset *)
SchedUpdateRuntime ==
    /\ ~crashed
    /\ sched = "idle"
    /\ updateChan = 1
    /\ updateChan' = IF locker # 0 THEN 1 ELSE 0
    /\ locker' = 0
    /\ timer' = Reset(stopTimer(timer))
    /\ sched' = "armed"
    /\ UNCHANGED <<fs, writer, buffer, updated, stopChan, pos, maxSize,
                   backupCount, closer, closeErr, wcnt, res, accepted, rotations,
                   faults, crashed>>
    /\ UNCHANGED tvars
    /\ UNCHANGED uvars

(* schedule, either select, case <-w.stopChan: stopTimer and return *)
SchedStopRuntime ==
    /\ ~crashed
    /\ sched \in {"idle", "armed"}
    /\ stopChan
    /\ timer' = stopTimer(timer)
    /\ sched' = "done"
    /\ UNCHANGED <<fs, writer, buffer, updated, updateChan, stopChan, locker, pos,
                   maxSize, backupCount, closer, closeErr, wcnt, res, accepted,
                   rotations, faults, crashed>>
    /\ UNCHANGED tvars
    /\ UNCHANGED uvars

(* schedule, second select, case <-timer.C: the value in timer.C is         *)
(* received, whichever expiry put it there                                  *)
SchedTimerRuntime ==
    /\ ~crashed
    /\ sched = "armed"
    /\ timer \in {"fired", "stale"}
    /\ timer' = IF timer = "stale" THEN "armed" ELSE "stopped"
    /\ sched' = "flush"
    /\ UNCHANGED <<fs, writer, buffer, updated, updateChan, stopChan, locker, pos,
                   maxSize, backupCount, closer, closeErr, wcnt, res, accepted,
                   rotations, faults, crashed>>
    /\ UNCHANGED tvars
    /\ UNCHANGED uvars

NextRuntime ==
    \/ \E c \in Callers, n \in Lens, fail \in FaultChoice :
          Issued < MaxWrites /\ Write(c, n, fail)
    \/ CloseStop
    \/ \E ff \in FaultChoice, cf \in FaultChoice : CloseBody(ff, cf)
    \/ TimerExpire
    \/ TimerSend
    \/ SchedUpdateRuntime
    \/ SchedStopRuntime
    \/ SchedTimerRuntime
    \/ \E fail \in FaultChoice : SchedFlush(fail)

(* the BufferedFileWriter with the runtime's two-step timer expiry *)
SpecRuntime == Init /\ [][NextRuntime]_vars

(* C31: no stale timer fire is ever acted upon: every flush of the          *)
(* scheduler is triggered by a fire of the flush timer as it was armed      *)
(* after the most recent dirty signal, so the value the scheduler receives  *)
(* from timer.C is never one of an expiry that preceded the Reset.          *)
C31_NoStaleFire ==
    [][(sched = "armed" /\ sched' = "flush") => timer = "fired"]_vars

(* s is the end of t *)
IsSuffix(s, t) ==
    /\ Len(s) <= Len(t)
    /\ s = SubSeq(t, Len(t) - Len(s) + 1, Len(t))

(* C32: without I/O errors and starting from an empty directory, as long    *)
(* as no more than backupCount size rotations have occurred, path.N ..      *)
(* path.1, the active file and the buffered bytes concatenated are exactly  *)
(* the bytes accepted by Write, in acceptance order; after more rotations   *)
(* they are the end of the accepted bytes, the bytes discarded being those  *)
(* of the oldest backups.                                                   *)
C32_ChainIsAccepted ==
    NoIOError =>
        /\ IsSuffix(Stream, accepted)
        /\ rotations <= backupCount => Stream = accepted

C32_Witness ==
    /\ NoIOError
    /\ rotations = backupCount
    /\ fs[backupCount].data # <<>>
    /\ buffer.buf # <<>>
    /\ Stream = accepted

(* C33: a TimedRotatingFileWriter has at most one file open for writing at  *)
(* any time: it holds one open file while w.writer is a handle that was     *)
(* not closed and none otherwise, and a rotation attempt, whether it        *)
(* succeeds or fails at its flush, its close or its open, never leaves two  *)
(* handles open.                                                            *)
C33_OneOpenHandle ==
    /\ handles <= 1
    /\ handles = (IF writer # NilFile /\ ~handleClosed THEN 1 ELSE 0)

C33_Witness ==
    /\ rotations >= 1
    /\ rotateErr = "io"
    /\ writer = NilFile
    /\ handles = 0
    /\ \E d \in Days : d > 0 /\ fs[d].ex

(* the bytes of data found in the file at construction *)
OldIn(data) == {j \in 1..Len(data) : data[j][1] = 0}

(* the file found at construction held no more than maxSize bytes *)
InitialFits == \A i \in Names : Cardinality(OldIn(fs[i].data)) <= maxSize

(* data is one record of some caller, whole *)
SingleRecord(data) ==
    /\ data # <<>>
    /\ data[1][1] \in Callers
    /\ data = Rec(data[1][1], data[1][2], Len(data))

SchedRunning == sched \notin {"none", "done"}

(* a flush is on its way: a dirty signal is in updateChan, or the scheduler *)
(* is in its second select with the flush timer set, or has received the    *)
(* timer's fire and is about to flush                                        *)
FlushPending ==
    \/ updateChan = 1
    \/ sched \in {"armed", "rotateArmed"} /\ timer \in {"armed", "fired"}
    \/ sched = "flush"

(* C35, as claimed: whenever the lock is free, the scheduler is running and *)
(* no flush error has occurred, a non-empty buffer implies that the updated *)
(* flag is true, and the flag is true only if a dirty signal is pending or  *)
(* the flush timer is armed.                                                *)
C35_NoLostWakeup ==
    (locker = 0 /\ SchedRunning /\ ~buffer.err) =>
        /\ Buffered(buffer) > 0 => updated
        /\ updated => FlushPending

(* C35, amended: the same while the writer is open (w.writer is set).  Once *)
(* Close or a failed rotation has unset it, the flag can stay true with     *)
(* nothing pending, and nothing is buffered then.                            *)
C35_NoLostWakeupWhileOpen ==
    (locker = 0 /\ SchedRunning /\ ~buffer.err) =>
        /\ Buffered(buffer) > 0 => updated
        /\ updated /\ writer # NilFile => FlushPending
        /\ writer = NilFile => Buffered(buffer) = 0

(* a rotation has flushed without clearing the flag and bytes were buffered *)
(* since: no signal was sent for them, the flush timer is still set          *)
C35_Witness ==
    /\ locker = 0 /\ SchedRunning /\ ~buffer.err /\ writer # NilFile
    /\ rotations >= 1
    /\ Buffered(buffer) > 0 /\ updated
    /\ Len(fs[0].data) = 0
    /\ updateChan = 0 /\ sched = "armed" /\ timer = "armed"

(* the Write of caller c that returns in this step carries a record of      *)
(* maxSize bytes or more                                                     *)
OversizedReturn(c) == Returning(c) /\ IsRotating /\ ReturnedLen(c) >= maxSize

(* two rotations of the backup chain: what was in the active file and the   *)
(* buffer is in path.2, what was in path.i is in path.(i+2), as far as      *)
(* backupCount reaches                                                       *)
ShiftedByTwo ==
    /\ rotations' = rotations + 2
    /\ IF backupCount >= 2
       THEN fs'[2].ex /\ fs'[2].data = fs[0].data \o buffer.buf
       ELSE \A i \in Names : i > 1 => ~fs'[i].ex
    /\ \A i \in Names : i >= 1 /\ i + 2 <= backupCount => fs'[i + 2] = fs[i]
    /\ \A i \in Names : i > backupCount => ~fs'[i].ex

FlushStep == sched = "flush" /\ sched' # "flush"

(* the scheduler completes a call of w.rotate(rotateTimer) *)
RotateStep == sched \in {"rotateIdle", "rotateArmed"} /\ sched' # sched

(* C37: after Close has unset the file handle, a flush-timer or             *)
(* rotate-timer event that the scheduler still processes before it          *)
(* observes the stop signal performs no flush, opens no file and launches   *)
(* no purge: the timer flush is skipped, leaving the updated flag as it is, *)
(* and rotate returns os.ErrClosed without arming the rotate timer.         *)
C37_EventsAfterCloseDoNothing ==
    [][(closer = "done" /\ writer = NilFile /\ (FlushStep \/ RotateStep)) =>
          /\ fs' = fs /\ buffer' = buffer /\ updated' = updated
          /\ writer' = NilFile /\ handles' = handles
          /\ purge' = purge /\ rotations' = rotations
          /\ rotateTimer' = rotateTimer
          /\ RotateStep => rotateErr' = "closed"]_vars

(* the scheduler of a closed time-rotating writer has been through a rotate *)
(* and through a timer flush, and has not returned                          *)
C37_Witness ==
    /\ IsTimed /\ closer = "done" /\ writer = NilFile
    /\ rotateErr = "closed" /\ rotations = 0
    /\ updated /\ timer = "stopped" /\ sched = "idle"
    /\ fs[0].data = accepted /\ accepted # <<>>

(* C38: when the rotate timer fires while the clock still maps to the       *)
(* suffix of the open file, the rotation reopens that same file in append   *)
(* mode: its content is kept, with the buffered bytes flushed behind it, no *)
(* file is created, and the bytes accepted afterwards are appended to it,   *)
(* so that the file with the buffer holds every byte accepted while it was  *)
(* open, before or after the rotation, once and in order.                   *)
C38_SamePeriodReopens ==
    /\ [][(rotations' = rotations + 1 /\ now = writer) =>
             /\ writer' = writer
             /\ Existing' = Existing
             /\ fs'[writer].data = fs[writer].data \o buffer.buf
             /\ buffer'.buf = <<>>]_vars
    /\ [](writer # NilFile /\ fs[writer].ex =>
             fs[writer].data \o buffer.buf = AcceptedInto(writer))

(* the rotation reopened the one file: a byte written before it and a byte  *)
(* written after it are both in that file                                    *)
C38_Witness ==
    /\ rotations = 1 /\ now = 0 /\ writer = 0
    /\ Existing = {0}
    /\ Len(accepted) = 2
    /\ res[1][1].rot = 0 /\ res[1][2].rot = 1
    /\ fs[0].data = accepted

----------------------------------------------------------------------------
(* Line numbers (src/utils.go).  A byte slice of decimal digits is the      *)
(* sequence of the digits' values: the byte '0' + d is d.                   *)

(* uint2Bytes: x in `size` decimal places, filled from the last place; the  *)
(* same loop ends uint2DynamicBytes and fastUint2DynamicBytes               *)
RECURSIVE uint2Bytes(_, _)
uint2Bytes(x, size) ==
    IF size = 0 THEN <<>> ELSE uint2Bytes(x \div 10, size - 1) \o <<x % 10>>

(* uint2DynamicBytes, the switch after `case x < 10`: the first case that   *)
(* holds sets size                                                           *)
DynamicSize(x) ==
    IF x < 100 THEN 2
    ELSE IF x < 1000 THEN 3
    ELSE IF x < 10000 THEN 4
    ELSE IF x < 10000 THEN 5
    ELSE IF x < 10000 THEN 6
    ELSE IF x < 100000 THEN 7
    ELSE IF x < 1000000 THEN 8
    ELSE IF x < 10000000 THEN 9
    ELSE 10

uint2DynamicBytes(x) ==
    IF x < 10 THEN <<x>> ELSE uint2Bytes(x, DynamicSize(x))

(* init: the table of the line numbers 2 .. 1000 *)
uintBytes == [i \in 0..998 |-> uint2DynamicBytes(i + 2)]

(* fastUint2DynamicBytes, the switch after `case x <= 1000` *)
FastSize(x) ==
    IF x < 10000 THEN 4
    ELSE IF x < 10000 THEN 5
    ELSE IF x < 10000 THEN 6
    ELSE IF x < 100000 THEN 7
    ELSE IF x < 1000000 THEN 8
    ELSE IF x < 10000000 THEN 9
    ELSE 10

fastUint2DynamicBytes(x) ==
    IF x < 2 THEN <<x>>
    ELSE IF x <= 1000 THEN uintBytes[x - 2]
    ELSE uint2Bytes(x, FastSize(x))

(* the line numbers tried: every one up to MaxLine, which covers the table  *)
(* and its ends, and the numbers around each power of ten up to the         *)
(* largest int32                                                             *)
MaxLine == 1100

Lines ==
    0..MaxLine \cup
    {9999, 10000, 10001, 12345, 99999, 100000, 100001, 999999, 1000000,
     9999999, 10000000, 99999999, 100000000, 999999999, 1000000000,
     2147483647}

(* a record's line number is about to be formatted *)
InitLines ==
    /\ conv \in [x : Lines, out : {<<>>}]
    /\ holder = NoHolder
    /\ logger = [level |-> 0, handlers |-> <<>>]
    /\ handlers = <<>>
    /\ sinks = <<>>
    /\ lastCall = [n |-> 0, op |-> "none", h |-> 0, level |-> 0, message |-> "", ret |-> "none"]
    /\ newCall = NotCalled
    /\ fs = [i \in Names |-> NoFileEntry]
    /\ writer = NilFile
    /\ buffer = NilBuffer
    /\ updated = FALSE
    /\ updateChan = 0
    /\ stopChan = FALSE
    /\ locker = 0
    /\ timer = "stopped"
    /\ sched = "none"
    /\ pos = 0 /\ maxSize = 0 /\ backupCount = 0
    /\ NoCalls
    /\ Untimed
    /\ faults = 0

(* buf.Write(fastUint2DynamicBytes(r.line)) *)
FormatLine ==
    /\ conv.out = <<>>
    /\ conv' = [conv EXCEPT !.out = fastUint2DynamicBytes(conv.x)]
    /\ UNCHANGED <<fs, writer, buffer, updated, updateChan, stopChan, locker,
                   timer, sched, pos, maxSize, backupCount, closer, closeErr,
                   wcnt, res, accepted, rotations, faults, crashed>>
    /\ UNCHANGED tvars
    /\ UNCHANGED <<newCall, logger, handlers, sinks, lastCall, holder>>

SpecLines == InitLines /\ [][FormatLine]_vars

(* the decimal representation of x: its digits from the highest, none       *)
(* missing and no zero in front                                              *)
RECURSIVE Decimal(_)
Decimal(x) == IF x < 10 THEN <<x>> ELSE Decimal(x \div 10) \o <<x % 10>>

(* C39: fastUint2DynamicBytes(x) is the decimal representation of x, with   *)
(* no leading zeros and no missing digits, for every line number x.         *)
C39_DecimalOfLine ==
    conv.out # <<>> => conv.out = Decimal(conv.x)

====
